---------------------------- MODULE Spec2Model ----------------------------
(***************************************************************************)
(* A model of the citation pipeline of pdfsources: the Citation data model *)
(* (models.py), the text sanitizer and the three style formatters          *)
(* (formatters/), and the bibliography writer's loader (writers.py).       *)
(*                                                                         *)
(* Text is a TLA+ string; a character is a string of length 1.  Two        *)
(* characters that cannot be written in a TLA+ string literal are          *)
(* represented by stand-ins that occur nowhere else in the model:          *)
(*   "~" stands for U+2013 (en dash),  "^" stands for U+0060 (backtick).   *)
(* Both are, like the characters they stand for, neither alphanumeric nor  *)
(* whitespace.                                                             *)
(***************************************************************************)
EXTENDS Integers, Sequences, FiniteSets, TLC

(***************************************************************************)
(* Python str primitives                                                   *)
(***************************************************************************)
UpperAlphabet == "ABCDEFGHIJKLMNOPQRSTUVWXYZ"
LowerAlphabet == "abcdefghijklmnopqrstuvwxyz"
DigitAlphabet == "0123456789"

Ch(s, i) == SubSeq(s, i, i)

CharsOf(s) == { Ch(s, i) : i \in 1..Len(s) }

UpperChars == CharsOf(UpperAlphabet)
LowerChars == CharsOf(LowerAlphabet)
DigitChars == CharsOf(DigitAlphabet)
AlnumChars == UpperChars \cup LowerChars \cup DigitChars
WhitespaceChars == {" ", "\t", "\n", "\r", "\f"}

\* str.lower() / str.upper() on one character
LowerOf == [c \in UpperChars |->
              Ch(LowerAlphabet, CHOOSE i \in 1..Len(UpperAlphabet) : Ch(UpperAlphabet, i) = c)]
UpperOf == [c \in LowerChars |->
              Ch(UpperAlphabet, CHOOSE i \in 1..Len(LowerAlphabet) : Ch(LowerAlphabet, i) = c)]

LowerCh(c) == IF c \in UpperChars THEN LowerOf[c] ELSE c
UpperCh(c) == IF c \in LowerChars THEN UpperOf[c] ELSE c

isalnum(c) == c \in AlnumChars
isdigit(c) == c \in DigitChars
isspace(c) == c \in WhitespaceChars
isalpha(c) == c \in UpperChars \cup LowerChars
\* a regular-expression word character (\w), as \b uses it
IsWordCh(c) == isalnum(c) \/ c = "_"

\* F(x), with x evaluated to a value before F is applied to it.  (TLC passes an
\* operator argument unevaluated and may evaluate it again at each use; the
\* operators below evaluate their arguments once, as a Python call does.)
Strict(F(_), x) == CHOOSE r \in { F(v) : v \in {x} } : TRUE
Strict2(F(_, _), x, y) == CHOOSE r \in { F(v, w) : v \in {x}, w \in {y} } : TRUE
Strict3(F(_, _, _), x, y, z) == CHOOSE r \in { F(u, v, w) : u \in {x}, v \in {y}, w \in {z} } : TRUE

\* the lesser of two numbers
Below(m, n) == IF m <= n THEN m ELSE n

\* The concatenation of Piece(lo), Piece(lo+1), ..., Piece(hi), built by splitting
\* the range in eight so that the depth of evaluation grows with the logarithm of
\* the length.
RECURSIVE ConcatMap(_, _, _)
ConcatMap(Piece(_), lo, hi) ==
    IF lo > hi THEN ""
    ELSE IF lo = hi THEN Piece(lo)
    ELSE Strict3(LAMBDA a, b, q :
                    ConcatMap(Piece, a, Below(a + q - 1, b))
                    \o ConcatMap(Piece, a + q, Below(a + 2 * q - 1, b))
                    \o ConcatMap(Piece, a + 2 * q, Below(a + 3 * q - 1, b))
                    \o ConcatMap(Piece, a + 3 * q, Below(a + 4 * q - 1, b))
                    \o ConcatMap(Piece, a + 4 * q, Below(a + 5 * q - 1, b))
                    \o ConcatMap(Piece, a + 5 * q, Below(a + 6 * q - 1, b))
                    \o ConcatMap(Piece, a + 6 * q, Below(a + 7 * q - 1, b))
                    \o ConcatMap(Piece, a + 7 * q, b),
                 lo, hi, (hi - lo + 8) \div 8)

\* Step(hi, ... Step(lo + 1, Step(lo, x)) ...): the passes lo..hi of a loop that
\* updates one value, built by halving the range
RECURSIVE ApplyRange(_, _, _, _)
ApplyRange(Step(_, _), x, lo, hi) ==
    IF lo > hi THEN x
    ELSE IF lo = hi THEN Step(lo, x)
    ELSE Strict(LAMBDA v : ApplyRange(Step, v, ((lo + hi) \div 2) + 1, hi),
                ApplyRange(Step, x, lo, (lo + hi) \div 2))

\* str.lower()
lower(text) == Strict(LAMBDA s : ConcatMap(LAMBDA i : LowerCh(Ch(s, i)), 1, Len(s)), text)

\* needle in hay, for a non-empty needle
Contains(text, needle) ==
    Strict(LAMBDA hay :
              \E i \in 1..(Len(hay) - Len(needle) + 1) :
                  SubSeq(hay, i, i + Len(needle) - 1) = needle,
           text)

\* str.endswith(suffix)
endswith(text, suffix) ==
    Strict(LAMBDA s : /\ Len(suffix) <= Len(s)
                      /\ SubSeq(s, Len(s) - Len(suffix) + 1, Len(s)) = suffix,
           text)

\* old occurs in s at position i
OccursAt(s, old, i) ==
    /\ i >= 1
    /\ i + Len(old) - 1 <= Len(s)
    /\ SubSeq(s, i, i + Len(old) - 1) = old

\* position i starts one of the non-overlapping occurrences of old that a
\* left-to-right scan of s replaces: old occurs at i and no replaced occurrence
\* that starts before i reaches i
RECURSIVE Replaced(_, _, _)
Replaced(s, old, i) ==
    /\ OccursAt(s, old, i)
    /\ \A j \in (i - Len(old) + 1)..(i - 1) : ~Replaced(s, old, j)

\* str.replace(old, new): non-overlapping occurrences, left to right
replace(text, old, new) ==
    Strict(LAMBDA s :
              ConcatMap(LAMBDA i :
                           IF Replaced(s, old, i) THEN new
                           ELSE IF \E j \in (i - Len(old) + 1)..(i - 1) : Replaced(s, old, j)
                           THEN ""
                           ELSE Ch(s, i),
                        1, Len(s)),
           text)

\* the first n of the substitutions pairs = << <<old, new>>, ... >> applied in order
ReplaceEach(s, pairs, n) ==
    ApplyRange(LAMBDA i, v : replace(v, pairs[i][1], pairs[i][2]), s, 1, n)

\* str.strip(): without the leading and trailing whitespace
strip(text) ==
    Strict(LAMBDA s :
              Strict(LAMBDA kept :
                        IF kept = {} THEN ""
                        ELSE SubSeq(s, CHOOSE i \in kept : \A j \in kept : i <= j,
                                       CHOOSE i \in kept : \A j \in kept : j <= i),
                     { i \in 1..Len(s) : ~isspace(Ch(s, i)) }),
           text)

\* re.sub(r'\s+', ' ', s): every maximal run of whitespace becomes one space
CollapseWhitespace(text) ==
    Strict(LAMBDA s :
              ConcatMap(LAMBDA i :
                           IF ~isspace(Ch(s, i)) THEN Ch(s, i)
                           ELSE IF i > 1 /\ isspace(Ch(s, i - 1)) THEN ""
                           ELSE " ",
                        1, Len(s)),
           text)

\* ''.join(c for c in s if c.isalnum())
FilterAlnum(text) ==
    Strict(LAMBDA s : ConcatMap(LAMBDA i : IF isalnum(Ch(s, i)) THEN Ch(s, i) ELSE "", 1, Len(s)),
           text)

\* ''.join(c for c in s if c.isdigit())
FilterDigits(text) ==
    Strict(LAMBDA s : ConcatMap(LAMBDA i : IF isdigit(Ch(s, i)) THEN Ch(s, i) ELSE "", 1, Len(s)),
           text)

\* sum(1 for c in s if c.isalnum())
CountAlnum(text) == Strict(LAMBDA s : Cardinality({ i \in 1..Len(s) : isalnum(Ch(s, i)) }), text)

\* s[:n]
Prefix(text, n) == Strict(LAMBDA s : SubSeq(s, 1, IF n < Len(s) THEN n ELSE Len(s)), text)

\* Python's order of the characters compared here (by code point: punctuation,
\* digits, upper-case letters, lower-case letters as in ASCII; "^" stands for the
\* backtick and "~" for the en dash, and sit where those characters do)
CodeOrder == " !\"#$%&'()*+,-./" \o DigitAlphabet \o ":;<=>?@" \o UpperAlphabet
             \o "[\\]_^" \o LowerAlphabet \o "{|}~"
Code(c) == IF \E i \in 1..Len(CodeOrder) : Ch(CodeOrder, i) = c
           THEN CHOOSE i \in 1..Len(CodeOrder) : Ch(CodeOrder, i) = c
           ELSE 0

\* s < t for two str: s is a proper prefix of t, or s has the smaller character at
\* the first position where they differ
StrLess(left, right) ==
    Strict2(LAMBDA s, t :
               \/ (Len(s) < Len(t) /\ SubSeq(t, 1, Len(s)) = s)
               \/ \E k \in 1..(IF Len(s) < Len(t) THEN Len(s) ELSE Len(t)) :
                     /\ SubSeq(s, 1, k - 1) = SubSeq(t, 1, k - 1)
                     /\ Code(Ch(s, k)) < Code(Ch(t, k)),
            left, right)

(***************************************************************************)
(* JSON / Python values.  A field value is None, a str, or a list of str;  *)
(* "obj" is a raw JSON value of a type the Citation model rejects (a JSON  *)
(* object where a string or a list of strings is expected).                *)
(***************************************************************************)
None == [k |-> "none", s |-> "", l |-> <<>>]
Str(x) == [k |-> "str", s |-> x, l |-> <<>>]
List(xs) == [k |-> "list", s |-> "", l |-> xs]
Obj == [k |-> "obj", s |-> "", l |-> <<>>]

\* Python truthiness of a field value: None, "" and [] are falsy
Truthy(v) == \/ (v.k = "str" /\ v.s # "")
             \/ (v.k = "list" /\ v.l # <<>>)

\* str(v or '') for a field that is None, [] or a str after validation
StrOrEmpty(v) == IF v.k = "str" THEN v.s ELSE ""

(***************************************************************************)
(* models.py                                                               *)
(***************************************************************************)
\* class CitationType, in definition (iteration) order
CitationType == << "book", "article-journal", "article-newspaper", "chapter",
                   "report", "thesis", "webpage", "other" >>

\* Person.clean_whitespace
clean_whitespace(v) == IF v.k = "str" THEN Str(strip(v.s)) ELSE v

\* Person(**raw)
Person(raw) == [family |-> clean_whitespace(raw.family), given |-> clean_whitespace(raw.given)]

\* Citation.normalize_type
normalize_type(v) == IF v.k = "list" /\ v.l # <<>> THEN Str(v.l[1]) ELSE v

\* Citation.normalize_string_fields
normalize_string_fields(v) ==
    IF v.k = "list" /\ v.l # <<>> THEN Str(strip(v.l[1]))
    ELSE IF v.k = "str" THEN Str(strip(v.s))
    ELSE v

StringFields == {"title", "container_title", "volume", "issue", "pages", "date",
                 "publisher", "location"}
ScalarFields == StringFields \cup {"type"}

\* Citation(): every field at its default
EmptyCitation ==
    [type |-> None, title |-> None, author |-> <<>>, editor |-> <<>>,
     container_title |-> None, volume |-> None, issue |-> None, pages |-> None,
     date |-> None, publisher |-> None, location |-> None]

\* pydantic rejects the record when a field, or a name of a person, has a type the
\* model does not accept
Rejected(data) ==
    \/ \E f \in ScalarFields : data[f].k = "obj"
    \/ \E persons \in {data.author, data.editor} : \E i \in 1..Len(persons) :
           \/ persons[i].family.k \in {"obj", "list"}
           \/ persons[i].given.k \in {"obj", "list"}

\* Citation(**data): the validators run on every field
Citation(data) ==
    [type |-> normalize_type(data.type),
     title |-> normalize_string_fields(data.title),
     author |-> [i \in 1..Len(data.author) |-> Person(data.author[i])],
     editor |-> [i \in 1..Len(data.editor) |-> Person(data.editor[i])],
     container_title |-> normalize_string_fields(data.container_title),
     volume |-> normalize_string_fields(data.volume),
     issue |-> normalize_string_fields(data.issue),
     pages |-> normalize_string_fields(data.pages),
     date |-> normalize_string_fields(data.date),
     publisher |-> normalize_string_fields(data.publisher),
     location |-> normalize_string_fields(data.location)]

\* the heuristic part of get_inferred_type (no type, or a type matching no value)
journal_indicators == {"journal", "review", "proceedings", "quarterly", "annual"}
newspaper_indicators == {"times", "post", "herald", "news", "daily", "weekly"}
thesis_indicators == {"dissertation", "thesis", "phd", "master's", "doctoral"}
report_indicators == {"report", "working paper", "technical report", "policy brief"}
webpage_indicators == {"website", "blog", "online", "web"}

ContainsAny(text, indicators) == Strict(LAMBDA s : \E w \in indicators : Contains(s, w), text)

\* the container_title branch of get_inferred_type
InferFromContainerNewspaperFirst(container_str) ==
    IF ContainsAny(container_str, newspaper_indicators) THEN "article-newspaper"
    ELSE "article-journal"
InferFromContainer(container_str) ==
    IF ContainsAny(container_str, journal_indicators) THEN "article-journal"
    ELSE IF ContainsAny(container_str, newspaper_indicators) THEN "article-newspaper"
    ELSE "article-journal"

InferFromFieldsReportFirst(c) ==
    LET Infer(title_str, container_str) ==
            IF Truthy(c.container_title) THEN InferFromContainer(container_str)
            ELSE IF Truthy(c.publisher) \/ Truthy(c.location) THEN "book"
            ELSE IF Truthy(c.volume) \/ Truthy(c.issue) THEN "article-journal"
            ELSE IF ContainsAny(title_str, report_indicators) THEN "report"
            ELSE IF ContainsAny(title_str, thesis_indicators) THEN "thesis"
            ELSE IF Contains(title_str, "chapter") \/ Contains(title_str, "in:") THEN "chapter"
            ELSE IF ContainsAny(title_str, webpage_indicators) THEN "webpage"
            ELSE "other"
    IN  Strict2(Infer, lower(StrOrEmpty(c.title)), lower(StrOrEmpty(c.container_title)))
InferFromFields(c) ==
    LET Infer(title_str, container_str) ==
            IF Truthy(c.container_title) THEN InferFromContainer(container_str)
            ELSE IF Truthy(c.publisher) \/ Truthy(c.location) THEN "book"
            ELSE IF Truthy(c.volume) \/ Truthy(c.issue) THEN "article-journal"
            ELSE IF ContainsAny(title_str, thesis_indicators) THEN "thesis"
            ELSE IF ContainsAny(title_str, report_indicators) THEN "report"
            ELSE IF Contains(title_str, "chapter") \/ Contains(title_str, "in:") THEN "chapter"
            ELSE IF ContainsAny(title_str, webpage_indicators) THEN "webpage"
            ELSE "other"
    IN  Strict2(Infer, lower(StrOrEmpty(c.title)), lower(StrOrEmpty(c.container_title)))

\* the positions of the CitationType values whose string occurs in the type text
TypeMatches(type_str) ==
    Strict(LAMBDA s : { i \in 1..Len(CitationType) : Contains(s, CitationType[i]) }, type_str)

Min(S) == CHOOSE x \in S : \A y \in S : x <= y

\* the k-th smallest element of a set of numbers
Nth(S, k) == CHOOSE i \in S : Cardinality({ j \in S : j <= i }) = k

\* Citation.get_inferred_type
get_inferred_type_fields_first(c) ==
    LET Choose(inferred, matches) ==
            IF inferred # "other" THEN inferred
            ELSE IF Truthy(c.type) /\ matches # {} THEN CitationType[Min(matches)]
            ELSE "other"
    IN  Strict2(Choose, InferFromFields(c), TypeMatches(lower(StrOrEmpty(c.type))))
get_inferred_type(c) ==
    LET Choose(matches) ==
            IF Truthy(c.type) /\ matches # {} THEN CitationType[Min(matches)]
            ELSE InferFromFields(c)
    IN  Strict(Choose, TypeMatches(lower(StrOrEmpty(c.type))))

junk_patterns == { "ibid", "this content downloaded from", "all use subject to jstor",
                   "terms and conditions of use", "access provided by", "downloaded by",
                   "jstor is a not-for-profit", "the main topic discussed in",
                   "790~791" }

MinTitleLength == 10

\* all of s[i .. i+n-1] are digits
DigitRun(s, i, n) == /\ i + n - 1 <= Len(s)
                     /\ \A j \in i..(i + n - 1) : isdigit(Ch(s, j))

\* re.search(r'\b\d{1,3}\.\d{1,3}\.\d{1,3}\.\d{1,3}\b', s)
SearchIPv4(text) ==
    Strict(LAMBDA s :
    \E i \in 1..Len(s) : \E a \in 1..3 : \E b \in 1..3 : \E c \in 1..3 : \E d \in 1..3 :
        LET p2 == i + a + 1
            p3 == p2 + b + 1
            p4 == p3 + c + 1
            last == p4 + d - 1
        IN  /\ last <= Len(s)
            /\ (i = 1 \/ ~IsWordCh(Ch(s, i - 1)))
            /\ DigitRun(s, i, a) /\ Ch(s, i + a) = "."
            /\ DigitRun(s, p2, b) /\ Ch(s, p2 + b) = "."
            /\ DigitRun(s, p3, c) /\ Ch(s, p3 + c) = "."
            /\ DigitRun(s, p4, d)
            /\ (last = Len(s) \/ ~IsWordCh(Ch(s, last + 1))),
    text)

\* len(str(self.title)) < 10
TitleTooShortAt9(title) == Len(title) < MinTitleLength - 1
TitleTooShort(title) == Len(title) < MinTitleLength

\* any(pattern in title_str for pattern in junk_patterns)
HasJunkPattern(title_str) == ContainsAny(title_str, junk_patterns)

\* a digit, a period and a match of the IPv4 pattern
LooksLikeIPv4(title_str) ==
    Strict(LAMBDA s : /\ \E i \in 1..Len(s) : isdigit(Ch(s, i))
                      /\ Contains(s, ".")
                      /\ SearchIPv4(s),
           title_str)

\* alphanumeric_chars < len(title_str) * 0.6, in fifths
MostlyPunctuation(title_str) == Strict(LAMBDA s : 5 * CountAlnum(s) < 3 * Len(s), title_str)

stop_suffixes == {"the", "in", "of", "and", "or", "but", "was", "were"}

\* title_str.endswith((...)): a test on the last characters of the title
EndsWithStopSuffix(title_str) ==
    Strict(LAMBDA s : \E w \in stop_suffixes : endswith(s, w), title_str)

\* not self.author and not self.editor
NoAuthorOrEditorIgnored(c) == FALSE
NoAuthorOrEditor(c) == c.author = <<>> /\ c.editor = <<>>

\* Citation.has_valid_content
has_valid_content(c) ==
    LET Check(title_str) ==
            /\ Truthy(c.title)
            /\ ~TitleTooShort(StrOrEmpty(c.title))
            /\ ~HasJunkPattern(title_str)
            /\ ~LooksLikeIPv4(title_str)
            /\ ~MostlyPunctuation(title_str)
            /\ ~EndsWithStopSuffix(title_str)
            /\ ~NoAuthorOrEditor(c)
    IN  Strict(Check, lower(StrOrEmpty(c.title)))

(***************************************************************************)
(* formatters/base.py                                                      *)
(***************************************************************************)
\* the substitutions of clean_extracted_text, in the order it applies them
clean_replacements ==
    << << "\\\\", "" >>,
       << "\\(", "(" >>, << "\\)", ")" >>,
       << "\\[", "[" >>, << "\\]", "]" >>,
       << "\\\"", "\"" >>, << "\\'", "'" >>,
       << "\\{", "{" >>, << "\\}", "}" >>,
       << "&lt;", "<" >>, << "&gt;", ">" >>,
       << "&amp;", "&" >>, << "&quot;", "\"" >> >>

\* clean_extracted_text
clean_extracted_text(raw_text) ==
    Strict(LAMBDA v : strip(CollapseWhitespace(v)),
           ReplaceEach(raw_text, clean_replacements, Len(clean_replacements)))

\* str.isupper(): at least one cased character and no lower-case one
isupper(text) ==
    Strict(LAMBDA s : /\ \E i \in 1..Len(s) : Ch(s, i) \in UpperChars
                      /\ \A i \in 1..Len(s) : Ch(s, i) \notin LowerChars,
           text)

\* str.title(): a letter is upper-cased after a non-letter, lower-cased after a letter
title(text) ==
    Strict(LAMBDA s :
              ConcatMap(LAMBDA i :
                           IF i > 1 /\ isalpha(Ch(s, i - 1)) THEN LowerCh(Ch(s, i))
                           ELSE UpperCh(Ch(s, i)),
                        1, Len(s)),
           text)

\* \bword\b matches at position i of s (word begins and ends with a word character)
WordAt(s, i, word) ==
    /\ i + Len(word) - 1 <= Len(s)
    /\ SubSeq(s, i, i + Len(word) - 1) = word
    /\ (i = 1 \/ ~IsWordCh(Ch(s, i - 1)))
    /\ (i + Len(word) - 1 = Len(s) \/ ~IsWordCh(Ch(s, i + Len(word))))

\* re.sub(rf'\b{word}\b', repl, s): two matches of \bword\b never overlap
ReSubWord(text, pattern, repl) ==
    Strict2(LAMBDA s, word :
               ConcatMap(LAMBDA i :
                            IF WordAt(s, i, word) THEN repl
                            ELSE IF \E j \in (i - Len(word) + 1)..(i - 1) :
                                        j >= 1 /\ WordAt(s, j, word)
                            THEN ""
                            ELSE Ch(s, i),
                         1, Len(s)),
            text, pattern)

particles == << "van", "von", "de", "da", "del", "della", "du", "le", "la", "el", "al", "der" >>

\* the loop over particles: the first n particles applied in order
LowerParticles(name, n) ==
    ApplyRange(LAMBDA i, v : ReSubWord(v, title(particles[i]), particles[i]), name, 1, n)

\* normalize_author_case.  Its last two substitutions (\bMc([A-Z]) -> Mc\1 and
\* \bO'([A-Z]) -> O'\1) replace each match by itself and so leave the text as it is.
normalize_author_case(name) ==
    Strict(LAMBDA text :
              Strict(LAMBDA v : ReSubWord(v, "Der", "de"),
                     LowerParticles(IF isupper(text) THEN title(text) ELSE text, Len(particles))),
           name)

\* the characters escape_markdown escapes, in the order of its loop
escape_chars_without_brackets == << "*", "_", "^", "#", "\\" >>
escape_chars == << "[", "]", "(", ")", "*", "_", "^", "#", "\\" >>

\* the loop over escape_chars: the first n characters escaped in order
EscapeLoop(escaped, n) ==
    ApplyRange(LAMBDA i, v : replace(v, escape_chars[i], "\\" \o escape_chars[i]),
               escaped, 1, n)

\* escape_markdown
escape_markdown(text) ==
    EscapeLoop(Strict(LAMBDA v : replace(replace(v, "<", "&lt;"), ">", "&gt;"),
                      clean_extracted_text(text)),
               Len(escape_chars))

\* escape_markdown(normalize_author_case(clean_extracted_text(name_part)))
RenderNamePart(name_part) ==
    Strict(escape_markdown, Strict(normalize_author_case, clean_extracted_text(name_part)))

\* one person's rendered name: "Family, Given", or the family name alone
PersonName(item) ==
    Strict(LAMBDA person :
              IF Truthy(person.given)
              THEN RenderNamePart(person.family.s) \o ", " \o RenderNamePart(person.given.s)
              ELSE RenderNamePart(person.family.s),
           item)

\* the list `names` of get_author_string: a person without a family name is skipped
RECURSIVE Names(_)
Names(items) ==
    Strict(LAMBDA persons :
              IF persons = <<>> THEN <<>>
              ELSE (IF Truthy(Head(persons).family) THEN << PersonName(Head(persons)) >>
                    ELSE <<>>)
                   \o Names(Tail(persons)),
           items)

\* sep.join(parts)
RECURSIVE join(_, _)
join(sep, strings) ==
    Strict(LAMBDA parts :
              IF parts = <<>> THEN ""
              ELSE IF Len(parts) = 1 THEN parts[1]
              ELSE parts[1] \o sep \o join(sep, Tail(parts)),
           strings)

\* get_author_string
get_author_string_without_and(authors, editors) ==
    IF authors = <<>> /\ editors = <<>> THEN ""
    ELSE LET items == IF authors # <<>> THEN authors ELSE editors
             WithSuffix(names) ==
                 IF names = <<>> THEN ""
                 ELSE IF editors # <<>> THEN join(", ", names) \o ", eds."
                 ELSE join(", ", names)
         IN  Strict(WithSuffix, Names(items))
get_author_string(authors, editors) ==
    IF authors = <<>> /\ editors = <<>> THEN ""
    ELSE LET items == IF authors # <<>> THEN authors ELSE editors
             Joined(names) ==
                 IF Len(names) > 1
                 THEN join(", ", SubSeq(names, 1, Len(names) - 1)) \o ", and " \o names[Len(names)]
                 ELSE names[1]
             WithSuffix(names) ==
                 IF names = <<>> THEN ""
                 ELSE IF editors # <<>> THEN Joined(names) \o ", eds."
                 ELSE Joined(names)
         IN  Strict(WithSuffix, Names(items))

\* filter(None, entry_parts)
RECURSIVE FilterNonEmpty(_)
FilterNonEmpty(strings) ==
    Strict(LAMBDA parts :
              IF parts = <<>> THEN <<>>
              ELSE (IF Head(parts) = "" THEN <<>> ELSE << Head(parts) >>)
                   \o FilterNonEmpty(Tail(parts)),
           strings)

\* " ".join(filter(None, entry_parts)).replace("..", ".").strip()
FinalEntry(entry_parts) ==
    Strict(strip, Strict(LAMBDA joined : replace(joined, "..", "."),
                         join(" ", FilterNonEmpty(entry_parts))))

\* an optional entry part: present when cond holds
Part(cond, text) == IF cond THEN << text >> ELSE <<>>

InSeq(x, seq) == Strict2(LAMBDA v, parts : \E i \in 1..Len(parts) : parts[i] = v, x, seq)

(***************************************************************************)
(* formatters/chicago.py, apa.py, harvard.py                               *)
(***************************************************************************)
\* the publisher block the three styles share: "Location: Publisher" or "Publisher"
PublisherBlock(c) ==
    IF Truthy(c.location)
    THEN escape_markdown(c.location.s) \o ": " \o escape_markdown(c.publisher.s)
    ELSE escape_markdown(c.publisher.s)

\* ChicagoFormatter.format
ChicagoFormat(c) ==
    LET Parts(author_string, ref_type, escaped_title) ==
            Part(author_string # "", author_string \o ".")
            \o << IF ref_type = "book" THEN "*" \o escaped_title \o "*."
                  ELSE "\"" \o escaped_title \o "\"." >>
            \o Part(Truthy(c.container_title),
                    "*" \o escape_markdown(StrOrEmpty(c.container_title)) \o "*")
            \o Part(Truthy(c.volume), StrOrEmpty(c.volume))
            \o Part(Truthy(c.issue), "no. " \o StrOrEmpty(c.issue))
            \o Part(Truthy(c.date), "(" \o StrOrEmpty(c.date) \o ")")
            \o Part(Truthy(c.pages), StrOrEmpty(c.pages) \o ".")
            \o Part(Truthy(c.publisher), PublisherBlock(c))
        WithFinalDate(entry_parts, ref_type) ==
            entry_parts
            \o Part(/\ ref_type = "book"
                    /\ Truthy(c.date)
                    /\ ~InSeq("(" \o StrOrEmpty(c.date) \o ")", entry_parts),
                    StrOrEmpty(c.date) \o ".")
        Entry(author_string, ref_type, escaped_title) ==
            FinalEntry(Strict2(WithFinalDate, Parts(author_string, ref_type, escaped_title),
                               ref_type))
    IN  IF ~has_valid_content(c) THEN ""
        ELSE Strict3(Entry, get_author_string(c.author, c.editor), get_inferred_type(c),
                     escape_markdown(c.title.s))

\* APAFormatter.format
APAFormat(c) ==
    LET Entry(author_string) ==
            FinalEntry(Part(author_string # "", author_string)
                       \o Part(Truthy(c.date), "(" \o StrOrEmpty(c.date) \o ").")
                       \o << escape_markdown(c.title.s) >>
                       \o Part(Truthy(c.container_title),
                               "*" \o escape_markdown(StrOrEmpty(c.container_title)) \o "*")
                       \o Part(Truthy(c.volume), ", *" \o StrOrEmpty(c.volume) \o "*")
                       \o Part(Truthy(c.issue), "(" \o StrOrEmpty(c.issue) \o ")")
                       \o Part(Truthy(c.pages), ", " \o StrOrEmpty(c.pages) \o ".")
                       \o Part(Truthy(c.publisher), PublisherBlock(c) \o "."))
    IN  IF ~has_valid_content(c) THEN ""
        ELSE IF ~Truthy(c.title) THEN ""
        ELSE Strict(Entry, get_author_string(c.author, c.editor))

\* HarvardFormatter.format
HarvardFormatUnchecked(c) ==
    LET Entry(author_string) ==
            FinalEntry(Part(author_string # "", author_string)
                       \o Part(Truthy(c.date), StrOrEmpty(c.date) \o ",")
                       \o << "*" \o escape_markdown(StrOrEmpty(c.title)) \o "*." >>
                       \o Part(Truthy(c.publisher), PublisherBlock(c) \o "."))
    IN  Strict(Entry, get_author_string(c.author, c.editor))
HarvardFormat(c) ==
    LET Entry(author_string) ==
            FinalEntry(Part(author_string # "", author_string)
                       \o Part(Truthy(c.date), StrOrEmpty(c.date) \o ",")
                       \o << "*" \o escape_markdown(c.title.s) \o "*." >>
                       \o Part(Truthy(c.publisher), PublisherBlock(c) \o "."))
    IN  IF ~has_valid_content(c) THEN ""
        ELSE IF ~Truthy(c.title) THEN ""
        ELSE Strict(Entry, get_author_string(c.author, c.editor))

Styles == {"chicago", "apa", "harvard"}

\* formatter.format(c) for the formatter whose style_name is style
Format(style, c) ==
    IF style = "chicago" THEN ChicagoFormat(c)
    ELSE IF style = "apa" THEN APAFormat(c)
    ELSE HarvardFormat(c)

(***************************************************************************)
(* writers.py: get_citation_signature, parse_citation                      *)
(***************************************************************************)
\* the family names get_citation_signature collects from citation.author[:2]
RECURSIVE author_names(_)
author_names(persons) ==
    Strict(LAMBDA authors :
              IF authors = <<>> THEN <<>>
              ELSE (IF Truthy(Head(authors).family)
                    THEN << FilterAlnum(lower(Head(authors).family.s)) >>
                    ELSE <<>>)
                   \o author_names(Tail(authors)),
           persons)

\* sorted(names) for a list of at most two names
sorted2(strings) ==
    Strict(LAMBDA names :
              IF Len(names) = 2 /\ StrLess(names[2], names[1]) THEN << names[2], names[1] >>
              ELSE names,
           strings)

\* get_citation_signature
get_citation_signature_without_year(c) ==
    LET title_part == FilterAlnum(lower(StrOrEmpty(c.title)))
        author_part == join("", sorted2(author_names(SubSeq(c.author, 1,
                                 IF Len(c.author) < 2 THEN Len(c.author) ELSE 2))))
    IN  title_part \o author_part
get_citation_signature(c) ==
    LET title_part == FilterAlnum(lower(StrOrEmpty(c.title)))
        author_part == join("", sorted2(author_names(SubSeq(c.author, 1,
                                 IF Len(c.author) < 2 THEN Len(c.author) ELSE 2))))
        year_part == Prefix(FilterDigits(StrOrEmpty(c.date)), 4)
    IN  title_part \o author_part \o year_part

\* parse_citation: the anystyle key container-title is renamed, and a record the
\* Citation model rejects becomes Citation()
parse_citation_keeping_accepted_fields(citation_data) ==
    LET Accepted(v) == IF v.k \in {"obj"} THEN None ELSE v
        AcceptedPersons(persons) ==
            [i \in 1..Len(persons) |->
                [family |-> IF persons[i].family.k = "str" THEN persons[i].family ELSE None,
                 given |-> IF persons[i].given.k = "str" THEN persons[i].given ELSE None]]
        Parse(normalized_data) ==
            Citation([f \in DOMAIN normalized_data |->
                        IF f \in {"author", "editor"} THEN AcceptedPersons(normalized_data[f])
                        ELSE Accepted(normalized_data[f])])
    IN  Strict(Parse,
               IF citation_data.container_hyphen_title.k # "none"
               THEN [citation_data EXCEPT
                        !.container_title = citation_data.container_hyphen_title]
               ELSE citation_data)
parse_citation(citation_data) ==
    LET Parse(normalized_data) ==
            IF Rejected(normalized_data) THEN EmptyCitation ELSE Citation(normalized_data)
    IN  Strict(Parse,
               IF citation_data.container_hyphen_title.k # "none"
               THEN [citation_data EXCEPT
                        !.container_title = citation_data.container_hyphen_title]
               ELSE citation_data)

(***************************************************************************)
(* writers.py: the four write_*_bibliography methods                       *)
(***************************************************************************)
\* str.capitalize(): the first character upper-cased, the others lower-cased
capitalize(text) ==
    Strict(LAMBDA s : IF s = "" THEN ""
                      ELSE UpperCh(Ch(s, 1)) \o lower(SubSeq(s, 2, Len(s))),
           text)

\* str(n) for a natural number, as an f-string renders len(...)
RECURSIVE str(_)
str(n) ==
    IF n < 10 THEN Ch(DigitAlphabet, n + 1)
    ELSE str(n \div 10) \o Ch(DigitAlphabet, (n % 10) + 1)

\* the positions of character c in text
Positions(text, c) == Strict(LAMBDA s : { i \in 1..Len(s) : Ch(s, i) = c }, text)

\* os.path.basename(path): what follows the last "/"
basename(path) ==
    Strict2(LAMBDA p, slashes :
               IF slashes = {} THEN p
               ELSE SubSeq(p, (CHOOSE i \in slashes : \A j \in slashes : j <= i) + 1, Len(p)),
            path, Positions(path, "/"))

\* x.split(',')[0]: the text before the first comma, all of x when it has none
BeforeComma(x) ==
    Strict2(LAMBDA entry, commas :
               IF commas = {} THEN entry ELSE SubSeq(entry, 1, Min(commas) - 1),
            x, Positions(x, ","))

\* the sort key: lambda x: x.split(',')[0].lower() if x.split(',')[0] else x
sort_key_without_lower(x) ==
    Strict2(LAMBDA entry, first : IF first # "" THEN first ELSE entry, x, BeforeComma(x))
sort_key(x) ==
    Strict2(LAMBDA entry, first : IF first # "" THEN lower(first) ELSE entry, x, BeforeComma(x))

\* one step of a stable sort: entry goes after the entries whose key is not greater
InsertByKey(sorted_refs, x) ==
    Strict3(LAMBDA refs, entry, key :
               Strict(LAMBDA before : SubSeq(refs, 1, before) \o << entry >>
                                      \o SubSeq(refs, before + 1, Len(refs)),
                      Cardinality({ i \in 1..Len(refs) : ~StrLess(key, sort_key(refs[i])) })),
            sorted_refs, x, sort_key(x))

\* refs.sort(key=...): the first n entries of refs sorted, equal keys keeping their order
SortFirst(refs, n) ==
    ApplyRange(LAMBDA i, sorted_refs : InsertByKey(sorted_refs, refs[i]), <<>>, 1, n)

sort(refs) == Strict(LAMBDA entries : SortFirst(entries, Len(entries)), refs)

\* for entry in refs: f.write(f"* {entry}\n")
EntryLines(refs) ==
    Strict(LAMBDA entries :
              ConcatMap(LAMBDA i : "* " \o entries[i] \o "\n", 1, Len(entries)),
           refs)

\* grouped_refs[ref_type].append(formatted_entry) on a defaultdict(list), kept as
\* the sequence of its items in insertion order
AddToGroup(grouped_refs, ref_type, formatted_entry) ==
    Strict(LAMBDA groups :
              IF \E i \in 1..Len(groups) : groups[i].ref_type = ref_type
              THEN [ i \in 1..Len(groups) |->
                       IF groups[i].ref_type = ref_type
                       THEN [groups[i] EXCEPT !.refs = Append(@, formatted_entry)]
                       ELSE groups[i] ]
              ELSE Append(groups, [ref_type |-> ref_type, refs |-> << formatted_entry >>]),
           grouped_refs)

\* the grouping loop over the first n citations
GroupFirst(style, citations, n) ==
    ApplyRange(LAMBDA i, grouped_refs :
                  Strict2(LAMBDA groups, formatted_entry :
                             IF formatted_entry = "" THEN groups
                             ELSE AddToGroup(groups, get_inferred_type(citations[i]),
                                             formatted_entry),
                          grouped_refs, Format(style, citations[i])),
               <<>>, 1, n)

\* the formatted entries of the first n citations, the empty ones left out
EntriesFirst(style, citations, n) ==
    ApplyRange(LAMBDA i, all_refs :
                  Strict2(LAMBDA refs, formatted_entry :
                             IF formatted_entry = "" THEN refs
                             ELSE Append(refs, formatted_entry),
                          all_refs, Format(style, citations[i])),
               <<>>, 1, n)

\* ref_type.replace('-', ' ').title()
TypeHeading(ref_type) == Strict(title, replace(ref_type, "-", " "))

\* the loop over grouped_refs.items(): heading, sorted entries, empty line;
\* marker is "## " in the divided and "### " in the sources_divided grouping
RECURSIVE GroupSections(_, _)
GroupSections(marker, grouped_refs) ==
    Strict(LAMBDA groups :
              IF groups = <<>> THEN ""
              ELSE marker \o TypeHeading(Head(groups).ref_type) \o "\n\n"
                   \o EntryLines(sort(Head(groups).refs)) \o "\n"
                   \o GroupSections(marker, Tail(groups)),
           grouped_refs)

\* what write_divided_bibliography writes for the citations it loaded
DividedDocument(style, citations) ==
    "# Bibliography (" \o capitalize(style) \o ")\n\n"
    \o GroupSections("## ", GroupFirst(style, citations, Len(citations)))

\* what write_combined_bibliography writes for the citations it loaded
CombinedDocument(style, citations) ==
    "# Bibliography (" \o capitalize(style) \o ")\n\n"
    \o EntryLines(sort(EntriesFirst(style, citations, Len(citations))))

\* source_name of a file that was read
SourceName(file_name) ==
    Strict(title,
           Strict(LAMBDA name : replace(replace(replace(name, ".json", ""), "anystyle-", ""),
                                        "_", " "),
                  basename(file_name)))

\* source_name in the except branch
SourceNameOnError(file_name) ==
    Strict(LAMBDA name : replace(replace(replace(name, ".json", ""), "info/", ""),
                                 "anystyle-", ""),
           file_name)

\* the citations of a file's records that pass has_valid_content (none when the
\* JSON value is not a list)
ValidFirst(items, n) ==
    ApplyRange(LAMBDA i, citations :
                  Strict2(LAMBDA valid, parsed :
                             IF has_valid_content(parsed) THEN Append(valid, parsed)
                             ELSE valid,
                          citations, parse_citation(items[i])),
               <<>>, 1, n)

FileCitations(file) ==
    IF file.kind = "list" THEN ValidFirst(file.items, Len(file.items)) ELSE <<>>

ZeroHeading(source_name) == "## " \o source_name \o " (0 sources)\n\n"

\* one pass of the loop of write_sources_bibliography over a file that open()
\* and json.load() do not fail on with an exception the method does not catch
SourceSectionWithoutZeroHeading(style, file) ==
    IF file.kind \in {"invalid_json", "missing"} THEN "\n"
    ELSE Strict2(LAMBDA valid_citations, source_name :
                    IF valid_citations # <<>>
                    THEN "## " \o source_name \o " (" \o str(Len(valid_citations))
                         \o " sources)\n\n" \o EntryLines(sort(valid_citations)) \o "\n"
                    ELSE "\n",
                 Strict(LAMBDA citations : EntriesFirst(style, citations, Len(citations)),
                        FileCitations(file)),
                 SourceName(file.name))
SourceSection(style, file) ==
    IF file.kind \in {"invalid_json", "missing"}
    THEN ZeroHeading(SourceNameOnError(file.name)) \o "\n"
    ELSE Strict2(LAMBDA valid_citations, source_name :
                    IF valid_citations # <<>>
                    THEN "## " \o source_name \o " (" \o str(Len(valid_citations))
                         \o " sources)\n\n" \o EntryLines(sort(valid_citations)) \o "\n"
                    ELSE ZeroHeading(source_name) \o "\n",
                 Strict(LAMBDA citations : EntriesFirst(style, citations, Len(citations)),
                        FileCitations(file)),
                 SourceName(file.name))

\* len(refs) summed over the groups
RECURSIVE TotalValid(_)
TotalValid(grouped_refs) ==
    IF grouped_refs = <<>> THEN 0
    ELSE Len(Head(grouped_refs).refs) + TotalValid(Tail(grouped_refs))

\* the same pass in write_sources_divided_bibliography
SourceDividedSectionCountingGroups(style, file) ==
    IF file.kind \in {"invalid_json", "missing"}
    THEN ZeroHeading(SourceNameOnError(file.name)) \o "\n"
    ELSE Strict2(LAMBDA grouped_refs, source_name :
                    IF grouped_refs # <<>>
                    THEN "## " \o source_name \o " (" \o str(Len(grouped_refs))
                         \o " sources)\n\n" \o GroupSections("### ", grouped_refs) \o "\n"
                    ELSE ZeroHeading(source_name) \o "\n",
                 Strict(LAMBDA citations : GroupFirst(style, citations, Len(citations)),
                        FileCitations(file)),
                 SourceName(file.name))
SourceDividedSection(style, file) ==
    IF file.kind \in {"invalid_json", "missing"}
    THEN ZeroHeading(SourceNameOnError(file.name)) \o "\n"
    ELSE Strict2(LAMBDA grouped_refs, source_name :
                    IF grouped_refs # <<>>
                    THEN "## " \o source_name \o " (" \o str(TotalValid(grouped_refs))
                         \o " sources)\n\n" \o GroupSections("### ", grouped_refs) \o "\n"
                    ELSE ZeroHeading(source_name) \o "\n",
                 Strict(LAMBDA citations : GroupFirst(style, citations, Len(citations)),
                        FileCitations(file)),
                 SourceName(file.name))

\* the loop over the first n files: what was written, and whether an exception the
\* method does not catch ended it
RECURSIVE SourcesFirst(_, _, _, _)
SourcesFirst(Section(_, _), style, files, n) ==
    IF n = 0 THEN [text |-> "", raised |-> FALSE]
    ELSE Strict(LAMBDA written :
                   IF written.raised THEN written
                   ELSE IF files[n].kind = "unreadable"
                   THEN [written EXCEPT !.raised = TRUE]
                   ELSE [written EXCEPT !.text = @ \o Section(style, files[n])],
                SourcesFirst(Section, style, files, n - 1))

\* what write_sources_bibliography writes
SourcesDocument(style, files) ==
    Strict(LAMBDA written :
              [written EXCEPT !.text = "# Bibliography by Source (" \o capitalize(style)
                                       \o ")\n\n" \o @],
           SourcesFirst(SourceSection, style, files, Len(files)))

\* what write_sources_divided_bibliography writes
SourcesDividedDocument(style, files) ==
    Strict(LAMBDA written :
              [written EXCEPT !.text = "# Bibliography by Source with Categories ("
                                       \o capitalize(style) \o ")\n\n" \o @],
           SourcesFirst(SourceDividedSection, style, files, Len(files)))

(***************************************************************************)
(* discovery.py: get_safe_output_filename                                  *)
(***************************************************************************)
Max(S) == CHOOSE x \in S : \A y \in S : x >= y

\* os.path.splitext: the extension begins at the last dot of the last path
\* component, unless only dots precede it there
splitext_at_first_dot(path) ==
    Strict(LAMBDA p :
              LET sepIndex == Max(Positions(p, "/") \cup {0})
                  dots == { i \in Positions(p, ".") : i > sepIndex + 1 }
              IN  IF dots # {}
                  THEN << SubSeq(p, 1, Min(dots) - 1), SubSeq(p, Min(dots), Len(p)) >>
                  ELSE << p, "" >>,
           path)
splitext(path) ==
    Strict(LAMBDA p :
              LET sepIndex == Max(Positions(p, "/") \cup {0})
                  dotIndex == Max(Positions(p, ".") \cup {0})
              IN  IF /\ dotIndex > sepIndex
                     /\ \E filenameIndex \in (sepIndex + 1)..(dotIndex - 1) :
                            Ch(p, filenameIndex) # "."
                  THEN << SubSeq(p, 1, dotIndex - 1), SubSeq(p, dotIndex, Len(p)) >>
                  ELSE << p, "" >>,
           path)

\* f"{base_name}_{counter}{ext}"
new_filename(filename, counter) ==
    Strict(LAMBDA parts : parts[1] \o "_" \o str(counter) \o parts[2], splitext(filename))

\* what input() gives: the line the user typed, or an exception
Typed(text) == [kind |-> "text", text |-> text]
EOFError == [kind |-> "EOFError", text |-> ""]
KeyboardInterrupt == [kind |-> "KeyboardInterrupt", text |-> ""]

\* input(...).strip().lower()
response(typed) == lower(strip(typed.text))

(***************************************************************************)
(* extractor.py: extract_citations_from_pdfs                               *)
(***************************************************************************)
\* text.split(sep) for a separator of one character
split(text, sep) ==
    Strict2(LAMBDA s, at :
               [ k \in 1..(Cardinality(at) + 1) |->
                   SubSeq(s, IF k = 1 THEN 1 ELSE Nth(at, k - 1) + 1,
                             IF k = Cardinality(at) + 1 THEN Len(s) ELSE Nth(at, k) - 1) ],
            text, Positions(text, sep))

\* Path.cwd()
cwd == "/work"

\* Path(file_path).resolve(), as the parts below the root: a relative path is taken
\* from the working directory, "." and empty parts are dropped and ".." removes the
\* part before it (the file system modelled has no symbolic links)
resolve(file_path) ==
    Strict(LAMBDA parts :
              ApplyRange(LAMBDA i, kept :
                            IF parts[i] \in {"", "."} THEN kept
                            ELSE IF parts[i] = ".."
                            THEN SubSeq(kept, 1, Len(kept) - 1)
                            ELSE Append(kept, parts[i]),
                         <<>>, 1, Len(parts)),
           split(IF file_path # "" /\ Ch(file_path, 1) = "/" THEN file_path
                 ELSE cwd \o "/" \o file_path,
                 "/"))

\* what a call gives: a value returned or an exception raised
Returns(value) == [raised |-> "", value |-> value]
Raises(exception, message) == [raised |-> exception, value |-> message]

\* validate_file_path: the resolved path as a string when it lies in the working
\* directory or below it, ValueError otherwise
validate_file_path(file_path) ==
    Strict2(LAMBDA path, base :
               IF Len(base) <= Len(path) /\ SubSeq(path, 1, Len(base)) = base
               THEN Returns("/" \o join("/", path))
               ELSE Raises("ValueError", "Invalid or unsafe file path: " \o file_path),
            resolve(file_path), resolve(cwd))

\* os.path.join(a, b)
path_join(a, b) ==
    IF b # "" /\ Ch(b, 1) = "/" THEN b
    ELSE IF a = "" \/ endswith(a, "/") THEN a \o b
    ELSE a \o "/" \o b

\* lines 60-61: the basename of the PDF without its extension, and the JSON output
pdf_basename(pdf_file) == splitext(basename(pdf_file))[1]
json_output(pdf_file, output_dir) ==
    path_join(output_dir, "anystyle-" \o pdf_basename(pdf_file) \o ".json")

\* lines 64-66: the name shown, cut to 47 characters and "..." when longer than 50
display_name(pdf_file) ==
    Strict(LAMBDA name : IF Len(name) > 50 THEN SubSeq(name, 1, 47) \o "..." ELSE name,
           pdf_basename(pdf_file))

\* what subprocess.run gives: a completed process, or an exception
CompletedProcess(returncode, stdout, stderr) ==
    [kind |-> "completed", returncode |-> returncode, stdout |-> stdout, stderr |-> stderr]
TimeoutExpired == [kind |-> "TimeoutExpired", returncode |-> 0, stdout |-> "", stderr |-> ""]
FileNotFoundError ==
    [kind |-> "FileNotFoundError", returncode |-> 0, stdout |-> "", stderr |-> ""]
OtherException(message) ==
    [kind |-> "Exception", returncode |-> 0, stdout |-> "", stderr |-> message]

\* check_anystyle_available, for what `anystyle --version` gives
check_anystyle_available(result) == result.kind = "completed" /\ result.returncode = 0

\* result.stderr.strip() if result.stderr else fallback
StderrOr(result, fallback) == IF result.stderr # "" THEN strip(result.stderr) ELSE fallback

\* the text anystyle prints, as json.loads reads it; BlankOutput is text that
\* strip() leaves empty
BlankOutput == [kind |-> "blank", items |-> <<>>]

\* _count_citations_by_type
count_citations_by_type(json_data) ==
    IF json_data.kind # "list" THEN [books |-> 0, articles |-> 0, other |-> 0]
    ELSE ApplyRange(LAMBDA i, counts :
                       Strict(LAMBDA parsed :
                                 IF ~has_valid_content(parsed) THEN counts
                                 ELSE Strict(LAMBDA citation_type :
                                       IF citation_type = "book"
                                       THEN [counts EXCEPT !.books = @ + 1]
                                       ELSE IF citation_type \in {"article-journal",
                                                                  "article-newspaper"}
                                       THEN [counts EXCEPT !.articles = @ + 1]
                                       ELSE [counts EXCEPT !.other = @ + 1],
                                             get_inferred_type(parsed)),
                              parse_citation(json_data.items[i])),
                    [books |-> 0, articles |-> 0, other |-> 0], 1, Len(json_data.items))

total_sources(citation_counts) ==
    citation_counts.books + citation_counts.articles + citation_counts.other

\* lines 88-96: "2 books, 1 articles, 1 other", without the kinds that count 0
count_str(citation_counts) ==
    join(", ",
         (IF citation_counts.books > 0 THEN << str(citation_counts.books) \o " books" >>
          ELSE <<>>)
         \o (IF citation_counts.articles > 0
             THEN << str(citation_counts.articles) \o " articles" >> ELSE <<>>)
         \o (IF citation_counts.other > 0 THEN << str(citation_counts.other) \o " other" >>
             ELSE <<>>))

\* a file as _diagnose_pdf_failure sees it: whether it exists and can be read, its
\* size, its first four bytes and whether reading them succeeds, and what
\* `pdftotext -l 1` and `pdfinfo` give for it
PdfFile(size, header, pdftotext, pdfinfo) ==
    [exists |-> TRUE, readable |-> TRUE, size |-> size, header |-> header,
     header_readable |-> TRUE, pdftotext |-> pdftotext, pdfinfo |-> pdfinfo]
NoSuchFile ==
    [exists |-> FALSE, readable |-> FALSE, size |-> 0, header |-> "",
     header_readable |-> FALSE, pdftotext |-> FileNotFoundError,
     pdfinfo |-> FileNotFoundError]

\* _diagnose_pdf_failure, for the file at the path it is given (os.path.getsize is
\* taken not to raise for a file that exists and can be read)
diagnose_pdf_failure(file) ==
    IF ~file.exists THEN << "File does not exist" >>
    ELSE IF ~file.readable THEN << "File is not readable (permission issue)" >>
    ELSE (IF file.size = 0 THEN << "File is empty (0 bytes)" >>
          ELSE IF file.size < 1024
          THEN << "File is very small (" \o str(file.size) \o " bytes) - may be corrupted" >>
          ELSE <<>>)
         \o (IF ~file.header_readable THEN << "Cannot read file header" >>
             ELSE IF file.header # "%PDF"
             THEN << "File is not a valid PDF (missing PDF header)" >>
             ELSE <<>>)
         \o (IF file.pdftotext.kind = "completed"
             THEN IF file.pdftotext.returncode # 0
                  THEN << "pdftotext cannot process file: "
                          \o StderrOr(file.pdftotext, "Unknown pdftotext error") >>
                  ELSE IF strip(file.pdftotext.stdout) = ""
                  THEN << "PDF contains no extractable text (may be image-only)" >>
                  ELSE <<>>
             ELSE IF file.pdftotext.kind = "TimeoutExpired"
             THEN << "pdftotext timeout - file may be corrupted or very large" >>
             ELSE IF file.pdftotext.kind = "FileNotFoundError"
             THEN << "pdftotext not found - poppler-utils may not be installed" >>
             ELSE << "pdftotext test failed: " \o file.pdftotext.stderr >>)
         \o (IF file.pdfinfo.kind = "completed"
             THEN IF file.pdfinfo.returncode # 0
                  THEN << "PDF metadata unreadable: "
                          \o StderrOr(file.pdfinfo, "Unknown pdfinfo error") >>
                  ELSE <<>>
             ELSE IF file.pdfinfo.kind = "TimeoutExpired"
             THEN << "pdfinfo timeout - file may be corrupted" >>
             ELSE IF file.pdfinfo.kind = "FileNotFoundError"
             THEN << "pdfinfo not found - poppler-utils may not be installed" >>
             ELSE <<>>)

\* lines 121-135: the report of the failed files, one line of output after another
FailedReport(failed) ==
    IF failed = <<>> THEN <<>>
    ELSE << "", "Failed to process:" >>
         \o ApplyRange(LAMBDA i, lines :
                          lines \o << "- " \o failed[i][1], "  Error: " \o failed[i][2] >>
                          \o (IF failed[i][3] = <<>> THEN <<>>
                              ELSE << "  Diagnostics:" >>
                                   \o [ k \in 1..Len(failed[i][3]) |->
                                          "    - " \o failed[i][3][k] ]),
                       <<>>, 1, Len(failed))

(***************************************************************************)
(* Inputs: raw extraction records                                          *)
(***************************************************************************)
MaxAuthors == 2

\* all sequences over S of length at most n
SeqsUpTo(S, n) == UNION { [1..k -> S] : k \in 0..n }

\* a raw record with every key absent
BaseRecord ==
    [type |-> None, title |-> None, author |-> <<>>, editor |-> <<>>,
     container_title |-> None, container_hyphen_title |-> None, volume |-> None,
     issue |-> None, pages |-> None, date |-> None, publisher |-> None, location |-> None]

Smith == [family |-> Str("Smith"), given |-> Str("John")]
Jones == [family |-> Str(" Jones "), given |-> None]

\* raw titles that exercise each rule of has_valid_content and each sanitizer step
ValidityTitles ==
    { None, Obj, Str(""), Str("    "), List(<<>>),
      Str("Short one"), Str("  Nine char   "), Str("Tenletters"),
      List(<<"A long valid title", "a second title">>),
      List(<<"  The theory of everything  ">>),
      Str("History of the"), Str("Modern history OF"), Str("War and"), Str("THIS OR"),
      Str("Nothing but"), Str("What it was"), Str("Where they were"), Str("Who is in"),
      Str("Life in Berlin"), Str("A history of England"), Str("The modern doctor"),
      Str("People who sunbathe"), Str("The history of tin"),
      Str("Ibid. page twelve"), Str("This content downloaded from there"),
      Str("Pages 790~791 of it"),
      Str("Server 192.168.1.1 access log"), Str("Version 1.2.3.4567 notes"),
      Str("abcdef----"), Str("abcde-----"), Str("a-b-c-d-e-f"),
      Str("[Click here](http://x)"), Str("Read [this](http://y) [now](z)"),
      Str("Title with *stars* and _under_"),
      Str("Code ^tick^ and #hash"),
      Str("Title \\(with\\) escapes"), Str("Tom &amp; Jerry &lt;b&gt;"),
      Str("Back\\\\slash \\[title\\]"), Str("Line one\nline\t two"),
      Str("Dots.. in a title..."), Str("Ends with period."),
      Str("Tags &amp;lt;b&amp;gt; shown"), Str("Said \\&quot;so\\&quot; twice") }

PersonLists == { << <<>>, <<>> >>, << <<Smith>>, <<>> >>, << <<>>, <<Jones>> >>,
                 << <<Smith>>, <<Jones>> >> }

ValidityRecords ==
    { [BaseRecord EXCEPT !.title = t, !.author = p[1], !.editor = p[2],
                         !.type = ty, !.publisher = pub] :
        t \in ValidityTitles, p \in PersonLists,
        ty \in {None, Str("book")}, pub \in {None, List(<<"Oxford University Press">>)} }

\* raw type, container and title values that exercise each step of get_inferred_type
TypeValues ==
    { None, Str(""), List(<<>>), Str("book"), Str("Book Chapter"),
      List(<<"article-newspaper", "book">>), Str("misc"), Str("REPORT thesis"),
      List(<<" thesis ">>) }

ContainerValues ==
    { None, Str("Journal of Things"), Str("ANNUAL Report"), Str("The Daily Times"),
      Str("Nature") }

TypingTitles ==
    { Str("A study of modern things"), Str("Doctoral thesis on reports"),
      Str("Technical report chapter"), Str("Chapter in: a website"),
      Str("My online blog entry") }

PublisherLocations ==
    { << None, None >>, << Str("Academic Press"), Str("London") >>, << None, Str("Paris") >>,
      << Str("Springer"), None >> }

VolumeIssues == { << None, None >>, << Str("12"), None >>, << None, List(<<"3">>) >> }

TypingRecords ==
    { [BaseRecord EXCEPT !.title = Str("A study of modern things"), !.author = <<Smith>>,
                         !.type = ty, !.container_title = ct,
                         !.publisher = pl[1], !.location = pl[2],
                         !.volume = vi[1], !.issue = vi[2]] :
        ty \in TypeValues, ct \in ContainerValues, pl \in PublisherLocations,
        vi \in VolumeIssues }
    \cup
    { [BaseRecord EXCEPT !.title = t, !.author = <<Smith>>, !.type = ty,
                         !.container_hyphen_title = ct, !.date = Str("2024"),
                         !.pages = Str("10-20")] :
        t \in TypingTitles, ty \in TypeValues, ct \in {None, List(<<"Quarterly Post">>)} }

\* persons and dates that exercise each part of get_citation_signature
PersonPool ==
    { [family |-> Str("O'Neil-Ab"), given |-> Str("VAN")],
      [family |-> Str("ab"), given |-> None],
      [family |-> Str("ABA"), given |-> Str("x")] }

NoFamily == [family |-> None, given |-> Str("Anon")]

AuthorLists ==
    SeqsUpTo(PersonPool, MaxAuthors)
    \cup { << NoFamily >>, << NoFamily, [family |-> Str("ab"), given |-> None] >>,
           << Smith, [family |-> Str("ab"), given |-> None], Jones >>,
           << [family |-> Str("ABA"), given |-> Str("x")], NoFamily, Smith, Jones >> }

SignatureTitles == { Str("Deep Learning Methods"), Str("deep learning: methods") }

DateValues == { None, Str("2024"), List(<<"12 May 2024">>), Str("c. 2024/25"),
                Str("May\n2024") }

SignatureRecords ==
    { [BaseRecord EXCEPT !.title = t, !.author = a, !.date = d] :
        t \in SignatureTitles, a \in AuthorLists, d \in DateValues }

RawRecords == ValidityRecords \cup TypingRecords \cup SignatureRecords

(***************************************************************************)
(* Inputs: collections of raw records (the JSON files given to the writer) *)
(***************************************************************************)
MaxFiles == 2
MaxRecords == 3

\* "Deep Methods" twice under different spellings, one more valid
\* record, and one record that fails has_valid_content
LoadPool ==
    { [BaseRecord EXCEPT !.title = Str("Deep Methods"), !.author = <<Smith>>,
                         !.date = Str("2024")],
      [BaseRecord EXCEPT !.title = List(<<"deep: methods">>), !.author = <<Smith>>,
                         !.date = Str("2024-05"), !.publisher = Str("Springer")],
      [BaseRecord EXCEPT !.title = Str("A new Europe"), !.editor = <<Jones>>],
      [BaseRecord EXCEPT !.title = Str("Ibid."), !.author = <<Smith>>] }

\* what open() and json.load() give for a file: a list of records, a JSON value
\* that is not a list, text that is not JSON, no such file, or another error
ListFile(items) == [kind |-> "list", items |-> items]
NotListFile == [kind |-> "not_list", items |-> <<>>]
InvalidJsonFile == [kind |-> "invalid_json", items |-> <<>>]
MissingFile == [kind |-> "missing", items |-> <<>>]
\* a file on which open() or read() raises an exception other than FileNotFoundError
\* and json.JSONDecodeError: PermissionError, IsADirectoryError, UnicodeDecodeError
UnreadableFile == [kind |-> "unreadable", items |-> <<>>]

\* the files that hold at most n records
FilesWithin(n) == { ListFile(items) : items \in SeqsUpTo(LoadPool, n) }
                  \cup { NotListFile, InvalidJsonFile, MissingFile, UnreadableFile }

\* the lists of at most nfiles files that hold at most nrecords records together
RECURSIVE FileListsWithin(_, _)
FileListsWithin(nfiles, nrecords) ==
    IF nfiles = 0 THEN { <<>> }
    ELSE { <<>> } \cup
         UNION { { <<file>> \o rest : rest \in FileListsWithin(nfiles - 1, nrecords - Len(file.items)) }
                 : file \in FilesWithin(nrecords) }

\* the records of the files given to the write_*_bibliography methods: two books
\* by Smith, two journal articles whose authors sort differently with and without
\* lower(), a record that fails has_valid_content, and two records without a
\* family name, one with a title that begins with a comma
Baker == [family |-> Str("Baker"), given |-> None]
Adams == [family |-> Str("adams"), given |-> Str("A.")]

SmithBook ==
    [BaseRecord EXCEPT !.title = Str("Deep Methods"), !.author = <<Smith>>,
                       !.date = Str("2024"), !.type = Str("book")]
SmithOtherBook ==
    [BaseRecord EXCEPT !.title = Str("Other Methods"), !.author = <<Smith>>,
                       !.type = Str("book")]
BakerArticle ==
    [BaseRecord EXCEPT !.title = Str("Bridges of time"), !.author = <<Baker>>,
                       !.container_title = Str("Journal of Things")]
AdamsArticle ==
    [BaseRecord EXCEPT !.title = Str("A study of modern things"), !.author = <<Adams>>,
                       !.container_hyphen_title = List(<<"Quarterly Post">>)]
IbidRecord == [BaseRecord EXCEPT !.title = Str("Ibid."), !.author = <<Smith>>]
CommaTitle ==
    [BaseRecord EXCEPT !.title = Str(", said the author twice"), !.author = <<NoFamily>>]
AnonDated ==
    [BaseRecord EXCEPT !.title = Str("Another long title"), !.author = <<NoFamily>>,
                       !.date = Str("2024")]
\* two records the Citation model rejects: a JSON object as volume, and a list as
\* the family name of an author
ObjectVolume ==
    [BaseRecord EXCEPT !.title = Str("Broken record title"), !.author = <<Smith>>,
                       !.volume = Obj]
ListFamily ==
    [BaseRecord EXCEPT !.title = Str("Nested author names"),
                       !.author = << [family |-> List(<<"Smith">>), given |-> None] >>,
                       !.publisher = Str("Springer")]

\* a file with its name
FileNamed(file, file_name) ==
    [name |-> file_name, kind |-> file.kind, items |-> file.items]

WriteFiles ==
    { FileNamed(ListFile(<< BakerArticle, AdamsArticle, SmithBook >>),
             "info/anystyle-first_paper.json"),
      FileNamed(ListFile(<< SmithOtherBook, IbidRecord, SmithBook >>), "refs.json"),
      FileNamed(ListFile(<< CommaTitle, AnonDated >>), "odd.json"),
      FileNamed(ListFile(<< ObjectVolume, BakerArticle, ListFamily >>), "broken.json"),
      FileNamed(ListFile(<<>>), "empty.json"),
      FileNamed(NotListFile, "dict.json"),
      FileNamed(InvalidJsonFile, "info/anystyle-bad_one.json"),
      FileNamed(MissingFile, "gone.json"),
      FileNamed(UnreadableFile, "locked.json") }

\* main's output_types
OutputTypes == {"divided", "combined", "sources", "sources_divided"}

(***************************************************************************)
(* Inputs: output paths, the files on disk and the user's answers          *)
(***************************************************************************)
MaxNumbered == 2

Filenames == { "existing.md", "my.complex.filename.md", "filename_no_ext",
               "out.v2/notes", ".hidden" }

\* the path and the numbered alternatives of it that may exist already
Candidates(path) == { path } \cup { new_filename(path, n) : n \in 1..MaxNumbered }

UserInputs == { Typed("y"), Typed("yes"), Typed(" Y "), Typed("YES"), Typed("n"),
                Typed(""), Typed("no"), Typed("yeah"), Typed("y es"),
                EOFError, KeyboardInterrupt }

(***************************************************************************)
(* Inputs: PDF files, and what the external tools give for them            *)
(***************************************************************************)
MaxPdfs == 3

GoodText == CompletedProcess(0, "Introduction\n", "")
GoodInfo == CompletedProcess(0, "Pages: 12\n", "")
DamagedStream == CompletedProcess(1, "", "Syntax Error: Document stream is empty\n")

\* a PDF with text, one of page images only, a file of no bytes, a saved web page
\* and a PDF on which the tools run out of time
GoodPdf == PdfFile(48213, "%PDF", GoodText, GoodInfo)
ScannedPdf == PdfFile(48213, "%PDF", CompletedProcess(0, " \n", ""), GoodInfo)
EmptyPdf == PdfFile(0, "", DamagedStream, DamagedStream)
WebPage == PdfFile(512, "<htm", CompletedProcess(1, "", ""),
                   OtherException("[Errno 12] Cannot allocate memory"))
HugePdf == PdfFile(90000000, "%PDF", TimeoutExpired, TimeoutExpired)

\* a PDF file given to extract_citations_from_pdfs: its path, the file there and
\* what `anystyle -f json find` gives for it
Pdf(path, file, anystyle) == [path |-> path, file |-> file, anystyle |-> anystyle]

\* two PDFs with valid citations, two whose output holds none, PDFs that fail in
\* each of the ways the loop handles, one outside the working directory, and one
\* at which the executable is no longer found
PdfPool ==
    { Pdf("paper.pdf", GoodPdf,
          CompletedProcess(0, ListFile(<< SmithBook, BakerArticle, IbidRecord >>), "")),
      Pdf("docs/./thesis.v2.pdf", GoodPdf,
          CompletedProcess(0, ListFile(<< AdamsArticle >>), "warning: low confidence\n")),
      Pdf("notes.pdf", GoodPdf, CompletedProcess(0, ListFile(<< IbidRecord >>), "")),
      Pdf("proceedings_of_the_twenty_third_international_conference.pdf", WebPage,
          CompletedProcess(0, InvalidJsonFile, "")),
      Pdf("scan.pdf", ScannedPdf, CompletedProcess(0, BlankOutput, "")),
      Pdf("empty.pdf", EmptyPdf, CompletedProcess(1, BlankOutput, " Error: cannot read PDF\n")),
      Pdf("../shared/outside.pdf", GoodPdf,
          CompletedProcess(0, ListFile(<< SmithBook >>), "")),
      Pdf("huge.pdf", HugePdf, TimeoutExpired),
      Pdf("later.pdf", GoodPdf, FileNotFoundError),
      Pdf("locked.pdf", GoodPdf, CompletedProcess(0, ListFile(<< SmithBook >>), "")) }

PdfPaths == { pdf.path : pdf \in PdfPool }

\* the PDF given as path
PdfAt(path) == CHOOSE pdf \in PdfPool : pdf.path = path

\* the files on disk, each at its absolute path
Disk == { [at |-> "/" \o join("/", resolve(pdf.path)), pdf |-> pdf] : pdf \in PdfPool }

\* the file at an absolute path, and what anystyle gives when run on it
FileAt(path) ==
    IF \E entry \in Disk : entry.at = path
    THEN (CHOOSE entry \in Disk : entry.at = path).pdf.file
    ELSE NoSuchFile
AnystyleAt(path) ==
    IF \E entry \in Disk : entry.at = path
    THEN (CHOOSE entry \in Disk : entry.at = path).pdf.anystyle
    ELSE CompletedProcess(1, BlankOutput, "Error: cannot read " \o path)

\* the paths at which open(path, 'w') raises PermissionError
ReadOnly == { "/work/info/anystyle-locked.json" }

OutputDirs == { "info", "../out" }

\* what `anystyle --version` may give
VersionChecks == { CompletedProcess(0, "anystyle version 1.6.0\n", ""),
                   CompletedProcess(127, "", "anystyle: command not found\n"),
                   FileNotFoundError, TimeoutExpired }

(***************************************************************************)
(* State                                                                   *)
(***************************************************************************)
VARIABLES
    citation_data,      \* the raw record handed to parse_citation
    citation,           \* the Citation parse_citation returned
    other,              \* a second Citation, equal to citation but for one field
    pc,                 \* "start", "parsed" or "returned"
    call,               \* the operation that was called on citation
    ret,                \* what it returned
    json_files,         \* load_citations_from_files: the files, in the order given
    deduplicate,        \*   its deduplicate argument
    file_idx,           \*   the position of the loop over json_files
    item_idx,           \*   the position of the loop over the file's records
    all_citations,      \*   the citations kept so far
    seen_signatures,    \*   the signatures of the citations kept so far
    duplicate_count,    \*   the number of citations dropped as duplicates
    load_pc,            \*   "idle", "files", "items", "done" or "raised"
    output_type,        \* main: the grouping whose write_*_bibliography is called
    formatter,          \* the style_name of the writer's formatter
    output_openable,    \* whether open(output_file, 'w') succeeds
    output_file,        \* the output file: whether it exists, and its text
    write_pc,           \* "idle", "called", "loading", "returned", "raised" or "logged"
    error,              \* the exception that left write_*_bibliography, "" when none
    generated,          \* main: the groupings logged as generated
    filename,           \* get_safe_output_filename: the path asked for
    force,              \*   its force argument
    no_interaction,     \*   its no_interaction argument
    existing,           \* the paths for which os.path.exists is true
    user_input,         \* what input() gives when it is called
    prompted,           \* whether input() was called
    counter,            \* the counter of the search for a free name
    safe_pc,            \* "idle", "called", "prompt", "search", "returned" or "raised"
    safe_result,        \* the path returned, or the exception raised
    pdf_files,          \* extract_citations_from_pdfs: the paths of the PDFs
    output_dir,         \*   its output_dir argument
    anystyle_version,   \* what `anystyle --version` gives
    pdf_idx,            \* the position of the for loop in pdf_files
    extract_json_files, \* its json_files: the outputs of the PDFs with sources
    failed_files,       \* its failed_files: (display name, error, diagnostics)
    safe_pdf_file,      \* its local safe_pdf_file, unbound until first assigned
    created,            \* the directories and files it has created
    printed,            \* the lines it has printed
    extract_pc,         \* "idle", "called", "loop", "report", "returned" or "raised"
    extract_result,     \* the list returned
    extract_error       \* the exception that left the function, "" when none

api_vars == << citation_data, citation, other, pc, call, ret >>
load_vars == << json_files, deduplicate, file_idx, item_idx, all_citations,
                seen_signatures, duplicate_count, load_pc >>
write_vars == << output_type, formatter, output_openable, output_file, write_pc, error,
                 generated >>
safe_vars == << filename, force, no_interaction, existing, user_input, prompted, counter,
                safe_pc, safe_result >>
extract_vars == << pdf_files, output_dir, anystyle_version, pdf_idx, extract_json_files,
                   failed_files, safe_pdf_file, created, printed, extract_pc,
                   extract_result, extract_error >>
tool_vars == << safe_vars, extract_vars >>
vars == << citation_data, citation, other, pc, call, ret, json_files, deduplicate,
           file_idx, item_idx, all_citations, seen_signatures, duplicate_count, load_pc,
           output_type, formatter, output_openable, output_file, write_pc, error,
           generated, filename, force, no_interaction, existing, user_input, prompted,
           counter, safe_pc, safe_result, pdf_files, output_dir, anystyle_version,
           pdf_idx, extract_json_files, failed_files, safe_pdf_file, created, printed,
           extract_pc, extract_result, extract_error >>

ApiIdle ==
    /\ citation_data = BaseRecord
    /\ citation = EmptyCitation
    /\ other = EmptyCitation
    /\ pc = "idle"
    /\ call = "none"
    /\ ret = ""

LoadIdle ==
    /\ json_files = <<>>
    /\ deduplicate = TRUE
    /\ file_idx = 1
    /\ item_idx = 1
    /\ all_citations = <<>>
    /\ seen_signatures = {}
    /\ duplicate_count = 0
    /\ load_pc = "idle"

NoFile == [exists |-> FALSE, text |-> ""]

WriteIdle ==
    /\ output_type = "none"
    /\ formatter = "chicago"
    /\ output_openable = TRUE
    /\ output_file = NoFile
    /\ write_pc = "idle"
    /\ error = ""
    /\ generated = <<>>

SafeIdle ==
    /\ filename = ""
    /\ force = FALSE
    /\ no_interaction = FALSE
    /\ existing = {}
    /\ user_input = EOFError
    /\ prompted = FALSE
    /\ counter = 0
    /\ safe_pc = "idle"
    /\ safe_result = ""

\* a local variable before its first assignment, and after it
Unbound == [bound |-> FALSE, path |-> ""]
Bound(path) == [bound |-> TRUE, path |-> path]

ExtractIdle ==
    /\ pdf_files = <<>>
    /\ output_dir = "info"
    /\ anystyle_version = FileNotFoundError
    /\ pdf_idx = 1
    /\ extract_json_files = <<>>
    /\ failed_files = <<>>
    /\ safe_pdf_file = Unbound
    /\ created = {}
    /\ printed = <<>>
    /\ extract_pc = "idle"
    /\ extract_result = <<>>
    /\ extract_error = ""

ToolsIdle == SafeIdle /\ ExtractIdle

(***************************************************************************)
(* One citation: parse_citation, then one call on the Citation             *)
(***************************************************************************)
Init ==
    /\ citation_data \in RawRecords
    /\ citation = EmptyCitation
    /\ other = EmptyCitation
    /\ pc = "start"
    /\ call = "none"
    /\ ret = ""
    /\ LoadIdle
    /\ WriteIdle
    /\ ToolsIdle

\* citation = parse_citation(citation_data)
ParseCitation ==
    /\ pc = "start"
    /\ citation' = parse_citation(citation_data)
    /\ pc' = "parsed"
    /\ UNCHANGED << citation_data, other, call, ret, load_vars, write_vars, tool_vars >>

Return(operation, value) ==
    /\ pc = "parsed"
    /\ call' = operation
    /\ ret' = value
    /\ pc' = "returned"
    /\ UNCHANGED << citation_data, citation, load_vars, write_vars, tool_vars >>

\* citation.has_valid_content()
HasValidContent == Return("has_valid_content", has_valid_content(citation)) /\ UNCHANGED other

\* citation.get_inferred_type()
GetInferredType == Return("get_inferred_type", get_inferred_type(citation)) /\ UNCHANGED other

\* get_citation_signature(citation)
GetCitationSignature ==
    Return("get_citation_signature", get_citation_signature(citation)) /\ UNCHANGED other

\* formatter.format(citation), for each of the three formatters
FormatCitation ==
    \E style \in Styles : Return(style, Format(style, citation)) /\ UNCHANGED other

\* get_author_string(citation.author, citation.editor), as every formatter calls it
GetAuthorString ==
    Return("get_author_string", get_author_string(citation.author, citation.editor))
    /\ UNCHANGED other

\* clean_extracted_text on the title, and again on what it returned
CleanExtractedText ==
    /\ pc = "parsed"
    /\ citation.title.k = "str"
    /\ \E cleaned \in { clean_extracted_text(citation.title.s) } :
           Return("clean_extracted_text", << cleaned, clean_extracted_text(cleaned) >>)
    /\ UNCHANGED other

\* escape_markdown on the title
EscapeMarkdown ==
    /\ pc = "parsed"
    /\ citation.title.k = "str"
    /\ Return("escape_markdown", escape_markdown(citation.title.s))
    /\ UNCHANGED other

\* the values a field is changed to when two signatures are compared
ChangedTitles == { "Deep Learning Methods", "Deep learning methods!", "Shallow Learning Methods" }
ChangedFamilies == { "Smith", "SMITH", "Smyth", "ba", "O Neil Ab" }
ChangedDates == { "2024", "2025", "12 May 2025", "2024-06-01" }

\* get_citation_signature on citation and on a citation that differs from it in
\* the title, in the first author's family name, or in the date
CompareSignatures ==
    \E field \in {"title", "family", "date"} :
    \E value \in (IF field = "title" THEN ChangedTitles
                  ELSE IF field = "family" THEN ChangedFamilies ELSE ChangedDates) :
        /\ field = "title" => citation.title # Str(value)
        /\ field = "date" => citation.date # Str(value)
        /\ field = "family" => (citation.author # <<>> /\ citation.author[1].family # Str(value))
        /\ other' = IF field = "title" THEN [citation EXCEPT !.title = Str(value)]
                    ELSE IF field = "date" THEN [citation EXCEPT !.date = Str(value)]
                    ELSE [citation EXCEPT !.author[1].family = Str(value)]
        /\ Return("compare_" \o field,
                  << get_citation_signature(citation), get_citation_signature(other') >>)

Next ==
    \/ ParseCitation
    \/ HasValidContent
    \/ GetInferredType
    \/ GetCitationSignature
    \/ FormatCitation
    \/ CompareSignatures
    \/ GetAuthorString
    \/ CleanExtractedText
    \/ EscapeMarkdown

Spec == Init /\ [][Next]_vars

(***************************************************************************)
(* BibliographyWriter.load_citations_from_files                            *)
(***************************************************************************)
InitLoad ==
    /\ ApiIdle
    /\ json_files \in FileListsWithin(MaxFiles, MaxRecords)
    /\ deduplicate \in BOOLEAN
    /\ file_idx = 1
    /\ item_idx = 1
    /\ all_citations = <<>>
    /\ seen_signatures = {}
    /\ duplicate_count = 0
    /\ load_pc = "files"
    /\ WriteIdle
    /\ ToolsIdle

\* the test of line 70: the citation is kept when its signature is not empty
\* and was not seen before
KeepsAnySignature(signature, seen) == signature # ""
KeepsSignature(signature, seen) == signature # "" /\ signature \notin seen

\* for file_name in json_files: open it and load its JSON; a list is iterated, an
\* exception that is not caught leaves the method, and anything else is logged
\* and the loop goes on with the next file
OpenFile ==
    /\ load_pc = "files"
    /\ file_idx <= Len(json_files)
    /\ IF json_files[file_idx].kind = "list"
       THEN /\ load_pc' = "items"
            /\ item_idx' = 1
            /\ UNCHANGED file_idx
       ELSE IF json_files[file_idx].kind = "unreadable"
       THEN /\ load_pc' = "raised"
            /\ UNCHANGED << file_idx, item_idx >>
       ELSE /\ file_idx' = file_idx + 1
            /\ UNCHANGED << load_pc, item_idx >>
    /\ UNCHANGED << json_files, deduplicate, all_citations, seen_signatures,
                    duplicate_count, api_vars, tool_vars, write_vars >>

\* one pass of "for item in data"
LoadItem ==
    /\ load_pc = "items"
    /\ item_idx <= Len(json_files[file_idx].items)
    /\ \E parsed \in { parse_citation(json_files[file_idx].items[item_idx]) } :
       \E signature \in { get_citation_signature(parsed) } :
           IF ~has_valid_content(parsed)
           THEN UNCHANGED << all_citations, seen_signatures, duplicate_count >>
           ELSE IF ~deduplicate
           THEN /\ all_citations' = Append(all_citations, parsed)
                /\ UNCHANGED << seen_signatures, duplicate_count >>
           ELSE IF KeepsSignature(signature, seen_signatures)
           THEN /\ seen_signatures' = seen_signatures \cup {signature}
                /\ all_citations' = Append(all_citations, parsed)
                /\ UNCHANGED duplicate_count
           ELSE /\ duplicate_count' = duplicate_count + 1
                /\ UNCHANGED << all_citations, seen_signatures >>
    /\ item_idx' = item_idx + 1
    /\ UNCHANGED << json_files, deduplicate, file_idx, load_pc, api_vars, tool_vars, write_vars >>

\* the end of the file's list: on to the next file
CloseFile ==
    /\ load_pc = "items"
    /\ item_idx > Len(json_files[file_idx].items)
    /\ file_idx' = file_idx + 1
    /\ load_pc' = "files"
    /\ UNCHANGED << json_files, deduplicate, item_idx, all_citations, seen_signatures,
                    duplicate_count, api_vars, tool_vars, write_vars >>

\* return all_citations
ReturnCitations ==
    /\ load_pc = "files"
    /\ file_idx > Len(json_files)
    /\ load_pc' = "done"
    /\ UNCHANGED << json_files, deduplicate, file_idx, item_idx, all_citations,
                    seen_signatures, duplicate_count, api_vars, tool_vars, write_vars >>

NextLoad ==
    \/ OpenFile
    \/ LoadItem
    \/ CloseFile
    \/ ReturnCitations

SpecLoad == InitLoad /\ [][NextLoad]_vars

(***************************************************************************)
(* main's loop over output_types: one write_*_bibliography call            *)
(***************************************************************************)
InitWrite ==
    /\ ApiIdle
    /\ json_files \in SeqsUpTo(WriteFiles, MaxFiles)
    /\ deduplicate = TRUE
    /\ file_idx = 1
    /\ item_idx = 1
    /\ all_citations = <<>>
    /\ seen_signatures = {}
    /\ duplicate_count = 0
    /\ load_pc = "idle"
    /\ output_type \in OutputTypes
    /\ formatter \in Styles
    /\ output_openable \in BOOLEAN
    /\ output_file = NoFile
    /\ write_pc = "called"
    /\ error = ""
    /\ generated = <<>>
    /\ ToolsIdle

\* citations = self.load_citations_from_files(json_files), the first statement of
\* write_divided_bibliography and write_combined_bibliography
CallLoadCitations ==
    /\ write_pc = "called"
    /\ output_type \in {"divided", "combined"}
    /\ load_pc = "idle"
    /\ load_pc' = "files"
    /\ write_pc' = "loading"
    /\ UNCHANGED << json_files, deduplicate, file_idx, item_idx, all_citations,
                    seen_signatures, duplicate_count, api_vars, tool_vars, output_type, formatter,
                    output_openable, output_file, error, generated >>

\* an exception load_citations_from_files did not catch leaves the write method too
LoadRaised ==
    /\ write_pc = "loading"
    /\ load_pc = "raised"
    /\ write_pc' = "raised"
    /\ error' = "PermissionError"
    /\ UNCHANGED << api_vars, tool_vars, load_vars, output_type, formatter, output_openable,
                    output_file, generated >>

\* with open(output_file, 'w') as f: f.write(...) for a method that has loaded its
\* citations; open() raises when the destination cannot be opened
WriteLoaded(Document(_, _)) ==
    /\ write_pc = "loading"
    /\ load_pc = "done"
    /\ IF output_openable
       THEN /\ output_file' = [exists |-> TRUE, text |-> Document(formatter, all_citations)]
            /\ write_pc' = "returned"
            /\ UNCHANGED error
       ELSE /\ write_pc' = "raised"
            /\ error' = "OSError"
            /\ UNCHANGED output_file
    /\ UNCHANGED << api_vars, tool_vars, load_vars, output_type, formatter, output_openable,
                    generated >>

\* write_divided_bibliography, after the citations are loaded
WriteDividedBibliography ==
    /\ output_type = "divided"
    /\ WriteLoaded(DividedDocument)

\* write_combined_bibliography, after the citations are loaded
WriteCombinedBibliographySwallowingError ==
    /\ output_type = "combined"
    /\ write_pc = "loading"
    /\ load_pc = "done"
    /\ IF output_openable
       THEN output_file' = [exists |-> TRUE,
                            text |-> CombinedDocument(formatter, all_citations)]
       ELSE UNCHANGED output_file
    /\ write_pc' = "returned"
    /\ UNCHANGED << api_vars, tool_vars, load_vars, output_type, formatter, output_openable,
                    error, generated >>
WriteCombinedBibliography ==
    /\ output_type = "combined"
    /\ WriteLoaded(CombinedDocument)

\* with open(output_file, 'w') as f: the loop over json_files writes into f; an
\* exception that ends the loop leaves what was written in the file
WriteFromFiles(Document(_, _)) ==
    /\ write_pc = "called"
    /\ IF ~output_openable
       THEN /\ write_pc' = "raised"
            /\ error' = "OSError"
            /\ UNCHANGED output_file
       ELSE \E written \in { Document(formatter, json_files) } :
            /\ output_file' = [exists |-> TRUE, text |-> written.text]
            /\ write_pc' = IF written.raised THEN "raised" ELSE "returned"
            /\ error' = IF written.raised THEN "PermissionError" ELSE ""
    /\ UNCHANGED << api_vars, tool_vars, load_vars, output_type, formatter, output_openable,
                    generated >>

\* write_sources_bibliography
WriteSourcesBibliography ==
    /\ output_type = "sources"
    /\ WriteFromFiles(SourcesDocument)

\* write_sources_divided_bibliography
WriteSourcesDividedBibliography ==
    /\ output_type = "sources_divided"
    /\ WriteFromFiles(SourcesDividedDocument)

\* main: logger.info(f"Generated {safe_output_file}") after the method returned
LogGenerated ==
    /\ write_pc = "returned"
    /\ generated' = Append(generated, output_type)
    /\ write_pc' = "logged"
    /\ UNCHANGED << api_vars, tool_vars, load_vars, output_type, formatter, output_openable,
                    output_file, error >>

NextWrite ==
    \/ CallLoadCitations
    \/ OpenFile
    \/ LoadItem
    \/ CloseFile
    \/ ReturnCitations
    \/ LoadRaised
    \/ WriteDividedBibliography
    \/ WriteCombinedBibliography
    \/ WriteSourcesBibliography
    \/ WriteSourcesDividedBibliography
    \/ LogGenerated

SpecWrite == InitWrite /\ [][NextWrite]_vars

(***************************************************************************)
(* get_safe_output_filename                                                *)
(***************************************************************************)
InitSafe ==
    /\ ApiIdle
    /\ LoadIdle
    /\ WriteIdle
    /\ ExtractIdle
    /\ filename \in Filenames
    /\ force \in BOOLEAN
    /\ no_interaction \in BOOLEAN
    /\ existing \in SUBSET Candidates(filename)
    /\ user_input \in UserInputs
    /\ prompted = FALSE
    /\ counter = 0
    /\ safe_pc = "called"
    /\ safe_result = ""

SafeReturn(path) ==
    /\ safe_pc' = "returned"
    /\ safe_result' = path

\* lines 25-34: a free name is returned as it is, an existing one is returned when
\* force is set and refused when no_interaction is set
CheckExistingIgnoringNoInteraction ==
    /\ safe_pc = "called"
    /\ IF filename \notin existing \/ force
       THEN SafeReturn(filename)
       ELSE safe_pc' = "prompt" /\ UNCHANGED safe_result
    /\ UNCHANGED << filename, force, no_interaction, existing, user_input, prompted, counter,
                    api_vars, load_vars, write_vars, extract_vars >>
CheckExisting ==
    /\ safe_pc = "called"
    /\ IF filename \notin existing \/ force
       THEN SafeReturn(filename)
       ELSE IF no_interaction
       THEN safe_pc' = "raised" /\ safe_result' = "FileExistsError"
       ELSE safe_pc' = "prompt" /\ UNCHANGED safe_result
    /\ UNCHANGED << filename, force, no_interaction, existing, user_input, prompted, counter,
                    api_vars, load_vars, write_vars, extract_vars >>

\* lines 37-47: the user is asked; "y" or "yes" returns the existing name, anything
\* else, EOFError and KeyboardInterrupt start the search at counter = 1
AskOverwrite ==
    /\ safe_pc = "prompt"
    /\ prompted' = TRUE
    /\ IF user_input.kind = "text" /\ response(user_input) \in {"y", "yes"}
       THEN SafeReturn(filename) /\ UNCHANGED counter
       ELSE safe_pc' = "search" /\ counter' = 1 /\ UNCHANGED safe_result
    /\ UNCHANGED << filename, force, no_interaction, existing, user_input,
                    api_vars, load_vars, write_vars, extract_vars >>

\* one pass of the while loop of lines 48-53
TryNewFilename ==
    /\ safe_pc = "search"
    /\ IF new_filename(filename, counter) \notin existing
       THEN SafeReturn(new_filename(filename, counter)) /\ UNCHANGED counter
       ELSE counter' = counter + 1 /\ UNCHANGED << safe_pc, safe_result >>
    /\ UNCHANGED << filename, force, no_interaction, existing, user_input, prompted,
                    api_vars, load_vars, write_vars, extract_vars >>

NextSafe ==
    \/ CheckExisting
    \/ AskOverwrite
    \/ TryNewFilename

\* the call runs to its end: nothing else is scheduled
SpecSafe == InitSafe /\ [][NextSafe]_vars /\ WF_vars(NextSafe)

(***************************************************************************)
(* extract_citations_from_pdfs                                             *)
(***************************************************************************)
InitExtract ==
    /\ ApiIdle
    /\ LoadIdle
    /\ WriteIdle
    /\ SafeIdle
    /\ pdf_files \in SeqsUpTo(PdfPaths, MaxPdfs)
    /\ output_dir \in OutputDirs
    /\ anystyle_version \in VersionChecks
    /\ pdf_idx = 1
    /\ extract_json_files = <<>>
    /\ failed_files = <<>>
    /\ safe_pdf_file = Unbound
    /\ created = {}
    /\ printed = <<>>
    /\ extract_pc = "called"
    /\ extract_result = <<>>
    /\ extract_error = ""

\* what one pass of the for loop does: the value of safe_pdf_file after it, how it
\* ends ("found", "none", "failed", "break" or "raise"), the JSON output, whether it
\* was written, the failure recorded and the line printed
Pass(safe, step) ==
    [safe |-> safe, step |-> step, json |-> "", wrote |-> FALSE, failed |-> <<>>,
     line |-> "", error |-> ""]

\* lines 116-118, the handler of `except Exception as e`: it reads safe_pdf_file,
\* which raises UnboundLocalError while the variable has not been assigned
HandleException(pdf_file, message, safe) ==
    IF ~safe.bound
    THEN [Pass(safe, "raise") EXCEPT !.error = "UnboundLocalError"]
    ELSE [Pass(safe, "failed") EXCEPT
             !.failed = << display_name(pdf_file), "System error: " \o message,
                           diagnose_pdf_failure(FileAt(safe.path)) >>]

\* lines 73-115: anystyle is run on the validated path and its output is written
\* and counted
RunAnystyle(pdf_file, safe_path, safe_json_output) ==
    Strict(LAMBDA result :
              IF result.kind = "completed"
              THEN IF result.returncode = 0 /\ result.stdout.kind # "blank"
                   THEN IF safe_json_output \in ReadOnly
                        THEN HandleException(pdf_file,
                                             "[Errno 13] Permission denied: '"
                                             \o safe_json_output \o "'",
                                             Bound(safe_path))
                        ELSE Strict(LAMBDA citation_counts :
                                IF total_sources(citation_counts) > 0
                                THEN [Pass(Bound(safe_path), "found") EXCEPT
                                         !.json = safe_json_output,
                                         !.wrote = TRUE,
                                         !.line = "- " \o display_name(pdf_file) \o ": "
                                                  \o str(total_sources(citation_counts))
                                                  \o " sources found ("
                                                  \o count_str(citation_counts) \o ")"]
                                ELSE [Pass(Bound(safe_path), "none") EXCEPT
                                         !.json = safe_json_output,
                                         !.wrote = TRUE,
                                         !.line = "- " \o display_name(pdf_file)
                                                  \o ": no sources found"],
                                    count_citations_by_type(result.stdout))
                   ELSE [Pass(Bound(safe_path), "failed") EXCEPT
                            !.failed = << display_name(pdf_file),
                                          "anystyle error: "
                                          \o StderrOr(result, "Unknown error"),
                                          diagnose_pdf_failure(FileAt(safe_path)) >>]
              ELSE IF result.kind = "TimeoutExpired"
              THEN [Pass(Bound(safe_path), "failed") EXCEPT
                       !.failed = << display_name(pdf_file),
                                     "Processing timeout (>5 minutes)",
                                     diagnose_pdf_failure(FileAt(safe_path)) >>]
              ELSE IF result.kind = "FileNotFoundError"
              THEN Pass(Bound(safe_path), "break")
              ELSE HandleException(pdf_file, result.stderr, Bound(safe_path)),
           AnystyleAt(safe_path))

\* lines 58-118, one pass of the loop: the two paths are validated, and
\* safe_pdf_file is assigned when the first validation succeeds
LoopBody(pdf_file, out_dir, safe) ==
    Strict(LAMBDA valid_pdf :
              IF valid_pdf.raised # ""
              THEN HandleException(pdf_file, valid_pdf.value, safe)
              ELSE Strict(LAMBDA valid_json :
                             IF valid_json.raised # ""
                             THEN HandleException(pdf_file, valid_json.value,
                                                  Bound(valid_pdf.value))
                             ELSE RunAnystyle(pdf_file, valid_pdf.value, valid_json.value),
                          validate_file_path(json_output(pdf_file, out_dir))),
           validate_file_path(pdf_file))

\* lines 39-53: without anystyle, or without PDF files, the empty list is returned;
\* otherwise the output directory is made (os.makedirs is taken to succeed)
StartExtract ==
    /\ extract_pc = "called"
    /\ IF ~check_anystyle_available(anystyle_version) \/ pdf_files = <<>>
       THEN /\ extract_pc' = "returned"
            /\ extract_result' = <<>>
            /\ UNCHANGED << created, printed >>
       ELSE /\ extract_pc' = "loop"
            /\ created' = created \cup { output_dir }
            /\ printed' = Append(printed, "Processing pdfs:")
            /\ UNCHANGED extract_result
    /\ UNCHANGED << pdf_files, output_dir, anystyle_version, pdf_idx, extract_json_files,
                    failed_files, safe_pdf_file, extract_error,
                    api_vars, load_vars, write_vars, safe_vars >>

\* one pass of the for loop of lines 58-118
ProcessPdf ==
    /\ extract_pc = "loop"
    /\ \E pass \in { LoopBody(pdf_files[pdf_idx], output_dir, safe_pdf_file) } :
          /\ safe_pdf_file' = pass.safe
          /\ extract_json_files' = IF pass.step = "found"
                                   THEN Append(extract_json_files, pass.json)
                                   ELSE extract_json_files
          /\ failed_files' = IF pass.step = "failed" THEN Append(failed_files, pass.failed)
                             ELSE failed_files
          /\ created' = IF pass.wrote THEN created \cup { pass.json } ELSE created
          /\ printed' = IF pass.line # "" THEN Append(printed, pass.line) ELSE printed
          /\ extract_error' = pass.error
          /\ pdf_idx' = IF pass.step \in {"raise", "break"} THEN pdf_idx ELSE pdf_idx + 1
          /\ extract_pc' = IF pass.step = "raise" THEN "raised"
                           ELSE IF pass.step = "break" \/ pdf_idx = Len(pdf_files)
                           THEN "report"
                           ELSE "loop"
    /\ UNCHANGED << pdf_files, output_dir, anystyle_version, extract_result,
                    api_vars, load_vars, write_vars, safe_vars >>

\* lines 120-137: the failed files are reported and json_files is returned
ReportAndReturn ==
    /\ extract_pc = "report"
    /\ printed' = printed \o FailedReport(failed_files)
    /\ extract_result' = extract_json_files
    /\ extract_pc' = "returned"
    /\ UNCHANGED << pdf_files, output_dir, anystyle_version, pdf_idx, extract_json_files,
                    failed_files, safe_pdf_file, created, extract_error,
                    api_vars, load_vars, write_vars, safe_vars >>

NextExtract ==
    \/ StartExtract
    \/ ProcessPdf
    \/ ReportAndReturn

SpecExtract == InitExtract /\ [][NextExtract]_vars

(***************************************************************************)
(* Properties of format and has_valid_content                              *)
(***************************************************************************)
Returned(operation) == pc = "returned" /\ call = operation

\* C1: for each of the three formatters, format(c) is the empty string if and
\* only if has_valid_content(c) is false; a valid citation gives a non-empty entry
C1_FormatEmptyIffInvalid ==
    \A style \in Styles :
        Returned(style) => ((ret = "") <=> ~has_valid_content(citation))

C1_Witness ==
    /\ Returned("harvard")
    /\ has_valid_content(citation)
    /\ citation.date = None
    /\ ret # ""

FinalWord(s) ==
    Strict(LAMBDA t :
              IF t = "" THEN ""
              ELSE SubSeq(t, Min({ i \in 1..Len(t) : \A j \in i..Len(t) : ~isspace(Ch(t, j)) }),
                          Len(t)),
           strip(s))

\* every validity condition but the one on the end of the title
OtherValidityConditions(c) ==
    LET title_str == lower(StrOrEmpty(c.title))
    IN  /\ Truthy(c.title)
        /\ Len(StrOrEmpty(c.title)) >= 10
        /\ ~HasJunkPattern(title_str)
        /\ ~SearchIPv4(title_str)
        /\ 5 * CountAlnum(title_str) >= 3 * Len(title_str)
        /\ (c.author # <<>> \/ c.editor # <<>>)

\* C3: for a citation that satisfies every other validity condition,
\* has_valid_content is false exactly when the final whitespace-delimited word of
\* the title, compared case-insensitively, is one of the, in, of, and, or, but,
\* was, were
C3_FinalStopWordExactly ==
    (Returned("has_valid_content") /\ OtherValidityConditions(citation))
        => ((ret = FALSE) <=>
            lower(FinalWord(StrOrEmpty(citation.title)))
                \in {"the", "in", "of", "and", "or", "but", "was", "were"})

\* C4: has_valid_content returns false for every citation whose title is absent
\* or empty and for every citation whose trimmed title has fewer than 10
\* characters, regardless of all other fields
C4_ShortOrAbsentTitleInvalid ==
    (/\ Returned("has_valid_content")
     /\ \/ citation.title = None
        \/ StrOrEmpty(citation.title) = ""
        \/ Len(strip(StrOrEmpty(citation.title))) < 10)
        => ret = FALSE

C4_Witness ==
    /\ Returned("has_valid_content")
    /\ citation_data.title = Str("  Nine char   ")
    /\ Len(citation.title.s) = 9
    /\ citation.author # <<>>
    /\ ret = FALSE

(***************************************************************************)
(* Properties of get_inferred_type                                         *)
(***************************************************************************)
EnumerationOrder ==
    << "book", "article-journal", "article-newspaper", "chapter", "report", "thesis",
       "webpage", "other" >>

\* the lowercased type text of c ("" when the type is absent)
TypeText(c) == lower(StrOrEmpty(c.type))

NamesAType(c) == \E i \in 1..Len(EnumerationOrder) : Contains(TypeText(c), EnumerationOrder[i])

HasJournalContainer(c) ==
    \E w \in {"journal", "review", "proceedings", "quarterly", "annual"} :
        Contains(lower(StrOrEmpty(c.container_title)), w)

\* C5: whenever the lowercased type text contains the string of some CitationType
\* value, get_inferred_type returns the first such value in enumeration order,
\* whatever the other fields are; type "book" always yields book
C5_ExplicitTypeFirst ==
    Returned("get_inferred_type") =>
        /\ \A i \in 1..Len(EnumerationOrder) :
               (/\ Contains(TypeText(citation), EnumerationOrder[i])
                /\ \A j \in 1..(i - 1) : ~Contains(TypeText(citation), EnumerationOrder[j]))
                   => ret = EnumerationOrder[i]
        /\ citation.type = Str("book") => ret = "book"

C5_Witness ==
    /\ Returned("get_inferred_type")
    /\ citation.type = Str("REPORT thesis")
    /\ citation.container_title = Str("The Daily Times")
    /\ citation.publisher # None
    /\ ret = "report"

\* C6 as stated: every citation whose container_title contains journal, review,
\* proceedings, quarterly or annual (case-insensitively) is typed article-journal
C6_JournalContainerAlways ==
    (Returned("get_inferred_type") /\ HasJournalContainer(citation))
        => ret = "article-journal"

\* C6, amended: so is every such citation whose lowercased type text contains no
\* CitationType value
C6_JournalContainerWithoutExplicitType ==
    (Returned("get_inferred_type") /\ HasJournalContainer(citation) /\ ~NamesAType(citation))
        => ret = "article-journal"

C6_Witness ==
    /\ Returned("get_inferred_type")
    /\ citation.container_title = Str("Quarterly Post")
    /\ citation.type = Str("misc")
    /\ ret = "article-journal"

(***************************************************************************)
(* Properties of load_citations_from_files                                 *)
(***************************************************************************)
\* the records of the readable list files, in file order and then record order
RECURSIVE RecordsInOrder(_)
RecordsInOrder(files) ==
    IF files = <<>> THEN <<>>
    ELSE (IF Head(files).kind = "list" THEN Head(files).items ELSE <<>>)
         \o RecordsInOrder(Tail(files))

\* the valid citations among them, in the same order
RECURSIVE ValidCitations(_)
ValidCitations(records) ==
    IF records = <<>> THEN <<>>
    ELSE Strict(LAMBDA c : IF has_valid_content(c) THEN << c >> ELSE <<>>,
                parse_citation(Head(records)))
         \o ValidCitations(Tail(records))

\* the citations of cs that no earlier citation of cs has the signature of
RECURSIVE FirstOfEachSignature(_, _)
FirstOfEachSignature(cs, n) ==
    IF n = 0 THEN <<>>
    ELSE FirstOfEachSignature(cs, n - 1)
         \o (IF \E j \in 1..(n - 1) :
                    get_citation_signature(cs[j]) = get_citation_signature(cs[n])
             THEN <<>> ELSE << cs[n] >>)

Loaded == load_pc = "done" /\ deduplicate

\* C7: with deduplication the files are processed in the given order and the
\* records in their order within each file; of the valid citations with equal
\* signatures exactly the first one met is kept and every later one is dropped,
\* and the duplicate count is the number of citations dropped
C7_FirstOccurrenceKept ==
    Loaded =>
        \E valid \in { ValidCitations(RecordsInOrder(json_files)) } :
            /\ all_citations = FirstOfEachSignature(valid, Len(valid))
            /\ duplicate_count = Len(valid) - Len(all_citations)

\* two files with an exact-duplicate pair and a differently spelled duplicate
C7_Witness ==
    /\ Loaded
    /\ Len(json_files) = 2
    /\ json_files[1].kind = "list" /\ Len(json_files[1].items) = 1
    /\ json_files[2].kind = "list" /\ Len(json_files[2].items) = 2
    /\ json_files[2].items[2] = json_files[1].items[1]
    /\ json_files[2].items[1] # json_files[1].items[1]
    /\ all_citations = << parse_citation(json_files[1].items[1]) >>
    /\ duplicate_count = 2

(***************************************************************************)
(* Properties of get_citation_signature                                    *)
(***************************************************************************)
Compared == pc = "returned" /\ call \in {"compare_title", "compare_family", "compare_date"}

SimplifiedTitle(c) == FilterAlnum(lower(StrOrEmpty(c.title)))

SimplifiedFamily(person) ==
    IF person.family.k = "str" THEN FilterAlnum(lower(person.family.s)) ELSE ""

\* the simplified family names of the first two authors, the smaller one first
LeadFamilies(c) ==
    IF c.author = <<>> THEN ""
    ELSE IF Len(c.author) = 1 THEN SimplifiedFamily(c.author[1])
    ELSE IF SimplifiedFamily(c.author[1]) = ""
         THEN SimplifiedFamily(c.author[2])
    ELSE IF SimplifiedFamily(c.author[2]) = ""
         THEN SimplifiedFamily(c.author[1])
    ELSE IF StrLess(SimplifiedFamily(c.author[2]), SimplifiedFamily(c.author[1]))
         THEN SimplifiedFamily(c.author[2]) \o SimplifiedFamily(c.author[1])
    ELSE SimplifiedFamily(c.author[1]) \o SimplifiedFamily(c.author[2])

FirstFourDigits(c) == Prefix(FilterDigits(StrOrEmpty(c.date)), 4)

Unbackslashed(text) ==
    Strict(LAMBDA s : ConcatMap(LAMBDA i : IF Ch(s, i) = "\\" THEN "" ELSE Ch(s, i), 1, Len(s)),
           text)

\* every ] and ( of s has a backslash right before it
BracketsEscaped(text) ==
    Strict(LAMBDA s : \A i \in 1..Len(s) : Ch(s, i) \in {"]", "("} => (i > 1 /\ Ch(s, i - 1) = "\\"),
           text)

\* text occurs in entry with backslashes put in, one of them before each ] and (
OccursEscaped(text, entry) ==
    \E a \in 1..Len(entry) : \E b \in a..Len(entry) :
        /\ b - a + 1 >= Len(text)
        /\ BracketsEscaped(SubSeq(entry, a, b))
        /\ Unbackslashed(SubSeq(entry, a, b)) = text

HasLinkConstruct(c) == Contains(StrOrEmpty(c.title), "](")

\* C10: for every formatter and every valid citation whose title holds a markdown
\* link construct such as [Click here](http://x), each ] and ( that comes from
\* the title has a backslash before it in the entry, and the entry holds no "]("
C10_LinkConstructEscaped ==
    \A style \in Styles :
        (Returned(style) /\ HasLinkConstruct(citation) /\ has_valid_content(citation))
            => /\ ~Contains(ret, "](")
               /\ OccursEscaped(citation.title.s, ret)

C10_Witness ==
    /\ Returned("chicago")
    /\ citation.title = Str("[Click here](http://x)")
    /\ has_valid_content(citation)
    /\ Contains(ret, "Click here\\\\]\\\\(http://x")


(***************************************************************************)
(* Properties of clean_extracted_text, format and get_author_string        *)
(***************************************************************************)
\* C11: clean_extracted_text is idempotent: applied to a text it has already
\* cleaned, it returns that text unchanged
C11_CleanIdempotent ==
    Returned("clean_extracted_text") => ret[2] = ret[1]

\* C12: for each of the three formatters, the entry formatted for a valid
\* citation contains no two consecutive periods
C12_NoDoublePeriod ==
    \A style \in Styles :
        (Returned(style) /\ has_valid_content(citation)) => ~Contains(ret, "..")

\* C13: for each of the three formatters, the entry formatted for a valid
\* citation is a single line: it contains no newline character
C13_SingleLine ==
    \A style \in Styles :
        (Returned(style) /\ has_valid_content(citation)) => ~Contains(ret, "\n")

\* C14: get_author_string appends ", eds." exactly when the names it renders
\* come from the editor list, that is when the author list is empty; with
\* authors present no ", eds." is appended
C14_EdsSuffixOnlyForEditors ==
    (Returned("get_author_string") /\ ret # "")
        => (endswith(ret, ", eds.") <=> citation.author = <<>>)

\* the persons of a list that have a family name, in list order
RECURSIVE Named(_)
Named(persons) ==
    IF persons = <<>> THEN <<>>
    ELSE IF Truthy(persons[1].family) THEN << persons[1] >> \o Named(Tail(persons))
    ELSE Named(Tail(persons))

\* "Family, Given", or the family name alone when there is no given name
FamilyGiven(person) ==
    IF Truthy(person.given)
    THEN RenderNamePart(person.family.s) \o ", " \o RenderNamePart(person.given.s)
    ELSE RenderNamePart(person.family.s)

\* the first n of the persons, each followed by ", "
RECURSIVE CommaSeparated(_, _)
CommaSeparated(persons, n) ==
    IF n = 0 THEN "" ELSE CommaSeparated(persons, n - 1) \o FamilyGiven(persons[n]) \o ", "

\* one name alone; several names separated by ", ", the last one after "and "
NameList(persons) ==
    IF persons = <<>> THEN ""
    ELSE IF Len(persons) = 1 THEN FamilyGiven(persons[1])
    ELSE CommaSeparated(persons, Len(persons) - 1) \o "and " \o FamilyGiven(persons[Len(persons)])

\* the list get_author_string renders: the authors, or the editors when there are no authors
RenderedList(c) == IF c.author # <<>> THEN c.author ELSE c.editor

\* C15: get_author_string renders the persons that have a family name in list
\* order, each as "Family, Given" or the family name alone, one name alone and
\* several joined by ", " with ", and " before the last (before any ", eds."
\* suffix); the result is empty when the list yields no name
C15_NamesInOrderJoined ==
    Returned("get_author_string") =>
        \E names \in { NameList(Named(RenderedList(citation))) } :
            /\ ret \in { names, names \o ", eds." }
            /\ names = "" => ret = ""

C15_Witness ==
    /\ Returned("get_author_string")
    /\ Len(Named(citation.author)) = 3
    /\ Len(citation.author) = 4
    /\ ret = "Aba, x, Smith, John, and Jones"

(***************************************************************************)
(* Properties of the written documents                                     *)
(***************************************************************************)
\* the lines of a text, each without its "\n"
\* the positions just after each line of s, whose line breaks are at breaks
LineEnds(s, breaks) ==
    breaks \cup (IF s # "" /\ Len(s) \notin breaks THEN { Len(s) + 1 } ELSE {})

Lines(text) ==
    Strict2(LAMBDA s, ends :
               [ k \in 1..Cardinality(ends) |->
                   SubSeq(s, IF k = 1 THEN 1 ELSE Nth(ends, k - 1) + 1, Nth(ends, k) - 1) ],
            text, LineEnds(text, Positions(text, "\n")))

StartsWith(line, prefix) ==
    Len(line) >= Len(prefix) /\ SubSeq(line, 1, Len(prefix)) = prefix

\* the positions of the lines that begin with prefix, among lines lo..hi
LinesWith(lines, prefix, lo, hi) ==
    { i \in lo..hi : i <= Len(lines) /\ StartsWith(lines[i], prefix) }

\* the entries of the list-item lines among lines lo..hi, in order
ItemsBetween(lines, lo, hi) ==
    Strict(LAMBDA at : [ k \in 1..Cardinality(at) |->
                           SubSeq(lines[Nth(at, k)], 3, Len(lines[Nth(at, k)])) ],
           LinesWith(lines, "* ", lo, hi))

\* the sections of a document that begin with a line marked by marker: the heading
\* line without the marker, and the entries listed before the next such line
Sections(lines, marker) ==
    Strict(LAMBDA at :
              [ k \in 1..Cardinality(at) |->
                  [ heading |-> SubSeq(lines[Nth(at, k)], Len(marker) + 1,
                                       Len(lines[Nth(at, k)])),
                    items |-> ItemsBetween(lines, Nth(at, k) + 1,
                                           IF k < Cardinality(at) THEN Nth(at, k + 1) - 1
                                           ELSE Len(lines)) ] ],
           LinesWith(lines, marker, 1, Len(lines)))

\* the write method has ended, by returning or by raising
WriteEnded == write_pc \in {"returned", "raised"}

\* the number of records of a collection that pass has_valid_content
ValidCount(file) ==
    IF file.kind # "list" THEN 0
    ELSE Cardinality({ k \in 1..Len(file.items) :
                         has_valid_content(parse_citation(file.items[k])) })

\* every collection has its heading, in input order, showing the number of entries
\* listed under it, which is the number of its valid records
HeadingPerCollection ==
    \E sections \in { Sections(Lines(output_file.text), "## ") } :
        /\ Len(sections) = Len(json_files)
        /\ \A i \in 1..Len(sections) :
              /\ endswith(sections[i].heading,
                          " (" \o str(ValidCount(json_files[i])) \o " sources)")
              /\ output_type = "sources" => Len(sections[i].items) = ValidCount(json_files[i])

\* C16: when a collection is unreadable or malformed the writer does not abort:
\* the method returns, the document is written, and in the sources and
\* sources_divided groupings every collection has its heading, the bad one
\* showing 0 and the others their numbers of valid records
C16_BadCollectionTolerated ==
    (/\ WriteEnded
     /\ output_openable
     /\ \E i \in 1..Len(json_files) : json_files[i].kind # "list")
        => /\ write_pc = "returned"
           /\ output_file.exists
           /\ output_type \in {"sources", "sources_divided"} => HeadingPerCollection

\* C17: in the sources grouping every collection, in input order, has exactly one
\* heading, whose count is the number of list-item lines under it and the number
\* of records of the collection that pass has_valid_content (0 when there is none)
C17_HeadingCountsPerSource ==
    (WriteEnded /\ output_openable /\ output_type = "sources") => HeadingPerCollection

\* the loaded citations with their entries and the headings of their types
Entries ==
    [ n \in 1..Len(all_citations) |->
        [ entry |-> Format(formatter, all_citations[n]),
          heading |-> TypeHeading(get_inferred_type(all_citations[n])) ] ]

\* the position in load order of the first citation with this entry, with this heading
LoadIndex(entries, entry) == Min({ n \in 1..Len(entries) : entries[n].entry = entry })
FirstSeen(entries, heading) == Min({ n \in 1..Len(entries) : entries[n].heading = heading })

Count(seq, x) == Cardinality({ i \in 1..Len(seq) : seq[i] = x })

\* each type seen has one group, the groups are in first-seen order, and each
\* group lists the entries of its type
GroupedByType(sections, entries) ==
    /\ { sections[k].heading : k \in 1..Len(sections) }
         = { entries[n].heading : n \in 1..Len(entries) }
    /\ \A k, l \in 1..Len(sections) :
          k < l => FirstSeen(entries, sections[k].heading)
                     < FirstSeen(entries, sections[l].heading)
    /\ \A k \in 1..Len(sections) :
          /\ \A i \in 1..Len(sections[k].items) :
                \E n \in 1..Len(entries) :
                   /\ entries[n].entry = sections[k].items[i]
                   /\ entries[n].heading = sections[k].heading
          /\ \A n \in 1..Len(entries) :
                entries[n].heading = sections[k].heading
                   => Count(sections[k].items, entries[n].entry)
                        = Cardinality({ m \in 1..Len(entries) : entries[m] = entries[n] })

\* the text of an entry before its first comma, all of it when it has no comma
TextBeforeFirstComma(entry) ==
    IF \E i \in 1..Len(entry) : Ch(entry, i) = ","
    THEN SubSeq(entry, 1, Min({ i \in 1..Len(entry) : Ch(entry, i) = "," }) - 1)
    ELSE entry

LoweredTextBeforeComma(entry) == lower(TextBeforeFirstComma(entry))

\* that text lowercased, or the entry itself when the text is empty
LoweredTextOrEntry(entry) ==
    IF TextBeforeFirstComma(entry) = "" THEN entry ELSE lower(TextBeforeFirstComma(entry))

\* the items of each group are in non-decreasing order of their keys, items with
\* equal keys in load order
SortedBy(Key(_), sections, entries) ==
    \A k \in 1..Len(sections) :
        \A i, j \in 1..Len(sections[k].items) :
            i < j => /\ ~StrLess(Key(sections[k].items[j]), Key(sections[k].items[i]))
                     /\ Key(sections[k].items[i]) = Key(sections[k].items[j])
                          => LoadIndex(entries, sections[k].items[i])
                               <= LoadIndex(entries, sections[k].items[j])

DividedWritten == output_type = "divided" /\ write_pc = "returned"

\* C18: in the divided grouping each entry is under the heading of its inferred
\* type, the groups are in first-seen order, and within a group the entries are
\* in non-decreasing order of the lowercased text before the first comma, equal
\* keys in load order
C18_GroupsSortedByTextBeforeComma ==
    DividedWritten =>
        \E sections \in { Sections(Lines(output_file.text), "## ") } :
        \E entries \in { Entries } :
            /\ GroupedByType(sections, entries)
            /\ SortedBy(LoweredTextBeforeComma, sections, entries)

\* C18 as amended: the same, the key of an entry whose text before the first
\* comma is empty being the entry itself
C18_GroupsSortedByKey ==
    DividedWritten =>
        \E sections \in { Sections(Lines(output_file.text), "## ") } :
        \E entries \in { Entries } :
            /\ GroupedByType(sections, entries)
            /\ SortedBy(LoweredTextOrEntry, sections, entries)

C18_Witness ==
    /\ DividedWritten
    /\ formatter = "chicago"
    /\ Len(json_files) = 2
    /\ json_files[1].name = "refs.json"
    /\ json_files[2].name = "info/anystyle-first_paper.json"
    /\ \E sections \in { Sections(Lines(output_file.text), "## ") } :
          /\ Len(sections) = 2
          /\ sections[1].heading = "Book"
          /\ sections[1].items = << "Smith, John. *Other Methods*.",
                                    "Smith, John. *Deep Methods*. (2024)" >>
          /\ sections[2].heading = "Article Journal"
          /\ Len(sections[2].items) = 2
          /\ StartsWith(sections[2].items[1], "adams, A.")
          /\ StartsWith(sections[2].items[2], "Baker.")

\* a list holding the empty collection [] and nothing else
OnlyEmptyCollection ==
    /\ Len(json_files) = 1
    /\ json_files[1].kind = "list"
    /\ json_files[1].items = <<>>

NoLineWith(lines, prefix) == LinesWith(lines, prefix, 1, Len(lines)) = {}

\* C19: for each of the four groupings, when the only collection is [], a
\* document is written and holds only the top-level heading: no sub-heading and
\* no list-item line
C19_OnlyTopHeading ==
    (WriteEnded /\ output_openable /\ OnlyEmptyCollection) =>
        /\ write_pc = "returned"
        /\ output_file.exists
        /\ \E lines \in { Lines(output_file.text) } :
              /\ StartsWith(lines[1], "# ")
              /\ NoLineWith(lines, "## ")
              /\ NoLineWith(lines, "### ")
              /\ NoLineWith(lines, "* ")

\* C19 as amended: when the only collection is [], a document is written with the
\* top-level heading and no list-item line; in the divided and combined groupings
\* it has no sub-heading, and in the sources and sources_divided groupings its
\* only sub-heading is that of the collection, showing 0 sources
C19_EmptyCollectionDocument ==
    (WriteEnded /\ output_openable /\ OnlyEmptyCollection) =>
        /\ write_pc = "returned"
        /\ output_file.exists
        /\ \E lines \in { Lines(output_file.text) } :
              /\ StartsWith(lines[1], "# ")
              /\ NoLineWith(lines, "### ")
              /\ NoLineWith(lines, "* ")
              /\ output_type \in {"divided", "combined"} => NoLineWith(lines, "## ")
              /\ output_type \in {"sources", "sources_divided"} =>
                    \E at \in { LinesWith(lines, "## ", 1, Len(lines)) } :
                        /\ Cardinality(at) = 1
                        /\ \A i \in at : endswith(lines[i], " (0 sources)")

C19_Witness ==
    /\ write_pc = "returned"
    /\ output_type = "sources"
    /\ OnlyEmptyCollection
    /\ output_file.text = "# Bibliography by Source (Apa)\n\n## Empty (0 sources)\n\n\n"

\* C20: when the output destination cannot be opened, the write method raises the
\* error to its caller (the OS error of open(), unless reading the collections
\* raised before), no document is written and main does not log the grouping as
\* generated
C20_OutputErrorPropagates ==
    ~output_openable =>
        /\ write_pc \notin {"returned", "logged"}
        /\ generated = <<>>
        /\ ~output_file.exists
        /\ WriteEnded => /\ error # ""
                         /\ load_pc \in {"idle", "done"} => error = "OSError"

C20_Witness ==
    /\ ~output_openable
    /\ write_pc = "raised"
    /\ error = "OSError"
    /\ output_type = "combined"
    /\ Len(all_citations) = 3

(***************************************************************************)
(* Properties of parse_citation within the written documents               *)
(***************************************************************************)
\* the record cannot be coerced into a Citation
Uncoercible(record) ==
    Rejected(IF record.container_hyphen_title.k # "none"
             THEN [record EXCEPT !.container_title = record.container_hyphen_title]
             ELSE record)

\* the collections without the records that cannot be coerced
WithoutUncoercible(files) ==
    [ i \in 1..Len(files) |->
        [ files[i] EXCEPT !.items = SelectSeq(files[i].items,
                                               LAMBDA record : ~Uncoercible(record)) ] ]

\* what load_citations_from_files returns for the files, with deduplication
LoadedFrom(files) ==
    Strict(LAMBDA valid : FirstOfEachSignature(valid, Len(valid)),
           ValidCitations(RecordsInOrder(files)))

\* the document a grouping writes for the files
DocumentOf(type, style, files) ==
    IF type = "divided" THEN DividedDocument(style, LoadedFrom(files))
    ELSE IF type = "combined" THEN CombinedDocument(style, LoadedFrom(files))
    ELSE IF type = "sources" THEN SourcesDocument(style, files).text
    ELSE SourcesDividedDocument(style, files).text

HasUncoercible(files) ==
    \E i \in 1..Len(files) : \E k \in 1..Len(files[i].items) : Uncoercible(files[i].items[k])

\* C21: parse_citation never raises: a record that cannot be coerced becomes a
\* Citation with every field absent, which fails has_valid_content; a write
\* method raises only for an unreadable collection or output, and the document
\* it writes is the one written for the same collections without such records
C21_UncoercibleRecordExcluded ==
    (WriteEnded /\ HasUncoercible(json_files)) =>
        /\ \A i \in 1..Len(json_files) : \A k \in 1..Len(json_files[i].items) :
              Uncoercible(json_files[i].items[k]) =>
                 /\ parse_citation(json_files[i].items[k]) = EmptyCitation
                 /\ ~has_valid_content(parse_citation(json_files[i].items[k]))
        /\ write_pc = "raised" =>
              \/ ~output_openable
              \/ \E i \in 1..Len(json_files) : json_files[i].kind = "unreadable"
        /\ write_pc = "returned" =>
              /\ output_file.exists
              /\ output_file.text
                   = DocumentOf(output_type, formatter, WithoutUncoercible(json_files))

\* the sources grouping of a collection whose first and last record cannot be
\* coerced: its heading counts the one record between them
C21_Witness ==
    /\ write_pc = "returned"
    /\ output_type = "sources"
    /\ Len(json_files) = 2
    /\ json_files[1].name = "broken.json"
    /\ json_files[2].name = "refs.json"
    /\ \E sections \in { Sections(Lines(output_file.text), "## ") } :
          /\ Len(sections) = 2
          /\ sections[1].heading = "Broken (1 sources)"
          /\ Len(sections[1].items) = 1
          /\ sections[2].heading = "Refs (2 sources)"

(***************************************************************************)
(* Properties of get_safe_output_filename                                  *)
(***************************************************************************)
\* the user answers y or yes: the answer is read without its surrounding
\* whitespace and in lower case
Confirms(typed) == typed.kind = "text" /\ lower(strip(typed.text)) \in {"y", "yes"}

SafeEnded == safe_pc \in {"returned", "raised"}

\* C22: the path of an already existing file is returned only if force is set or
\* the user answers y or yes to the prompt; a name that does not exist is
\* returned unchanged without a prompt; and for an existing file without force
\* and with no_interaction, FileExistsError is raised without a prompt
C22_ExistingReturnedOnlyWithConsent ==
    /\ (safe_pc = "returned" /\ safe_result \in existing)
          => (force \/ (prompted /\ Confirms(user_input)))
    /\ (safe_pc # "idle" /\ filename \notin existing)
          => /\ ~prompted
             /\ safe_pc \in {"called", "returned"}
             /\ safe_pc = "returned" => safe_result = filename
    /\ (filename \in existing /\ ~force /\ no_interaction)
          => /\ ~prompted
             /\ safe_pc \in {"called", "raised"}
             /\ safe_pc = "raised" => safe_result = "FileExistsError"

\* an existing file, no force, and the user answers yes: the existing path is returned
C22_Witness ==
    /\ safe_pc = "returned"
    /\ filename = "existing.md"
    /\ "existing.md" \in existing
    /\ ~force
    /\ prompted
    /\ user_input = Typed("yes")
    /\ safe_result = "existing.md"

\* position k of the path begins its extension: a dot that no dot and no "/"
\* follows, and that a character other than a dot precedes in the same component
BeginsExtension(path, k) ==
    /\ Ch(path, k) = "."
    /\ \A j \in (k + 1)..Len(path) : Ch(path, j) \notin {".", "/"}
    /\ \E i \in 1..(k - 1) : /\ Ch(path, i) \notin {".", "/"}
                             /\ \A j \in i..(k - 1) : Ch(path, j) # "/"

\* base_N.ext for the path base.ext, the extension split at the last dot
Numbered(path, n) ==
    LET ks == { k \in 1..Len(path) : BeginsExtension(path, k) }
        k == IF ks = {} THEN Len(path) + 1 ELSE Max(ks)
    IN  SubSeq(path, 1, k - 1) \o "_" \o str(n) \o SubSeq(path, k, Len(path))

\* the file exists and the user does not confirm
Declined == filename \in existing /\ ~force /\ ~no_interaction /\ ~Confirms(user_input)

SmallestFreeNumbered ==
    (Declined /\ SafeEnded) =>
        /\ safe_pc = "returned"
        /\ safe_result \notin existing
        /\ \E n \in 1..(Cardinality(existing) + 1) :
              /\ safe_result = Numbered(filename, n)
              /\ \A m \in 1..(n - 1) : Numbered(filename, m) \in existing

\* C23: when the file exists and the user does not confirm (another answer, EOF
\* or Ctrl+C), the call terminates and returns base_N.ext for the smallest
\* N >= 1 for which no such file exists, the extension split at the last dot;
\* the returned path never names an existing file
C23_SmallestFreeNumberedName ==
    /\ [] SmallestFreeNumbered
    /\ (safe_pc = "called" /\ Declined) ~> (safe_pc = "returned")

\* base_1 exists too and the user answers n: base_2 is returned, the extension
\* being the text from the last of the three dots
C23_Witness ==
    /\ safe_pc = "returned"
    /\ filename = "my.complex.filename.md"
    /\ existing = { "my.complex.filename.md", "my.complex.filename_1.md" }
    /\ user_input = Typed("n")
    /\ ~force /\ ~no_interaction
    /\ counter = 2
    /\ safe_result = "my.complex.filename_2.md"

(***************************************************************************)
(* Properties of the heuristic part of get_inferred_type                   *)
(***************************************************************************)
\* the field is present: neither None nor empty
Present(v) == v \notin { None, Str(""), List(<<>>) }

\* the lowercased text of the field has one of the words in it
Mentions(v, words) == \E w \in words : Contains(lower(StrOrEmpty(v)), w)

\* the first matching step of the decision list
DecisionList(c) ==
    IF Present(c.container_title)
    THEN (IF Mentions(c.container_title,
                      {"journal", "review", "proceedings", "quarterly", "annual"})
          THEN "article-journal"
          ELSE IF Mentions(c.container_title,
                           {"times", "post", "herald", "news", "daily", "weekly"})
          THEN "article-newspaper"
          ELSE "article-journal")
    ELSE IF Present(c.publisher) \/ Present(c.location) THEN "book"
    ELSE IF Present(c.volume) \/ Present(c.issue) THEN "article-journal"
    ELSE IF Mentions(c.title, {"dissertation", "thesis", "phd", "master's", "doctoral"})
    THEN "thesis"
    ELSE IF Mentions(c.title, {"report", "working paper", "technical report", "policy brief"})
    THEN "report"
    ELSE IF Mentions(c.title, {"chapter", "in:"}) THEN "chapter"
    ELSE IF Mentions(c.title, {"website", "blog", "online", "web"}) THEN "webpage"
    ELSE "other"

EscapedOnce(c) ==
    IF c = "<" THEN "&lt;"
    ELSE IF c = ">" THEN "&gt;"
    ELSE IF c \in {"[", "]", "(", ")", "*", "_", "^", "#", "\\"} THEN "\\" \o c
    ELSE c

\* every character of the text escaped once
EachEscapedOnce(text) ==
    Strict(LAMBDA s : ConcatMap(LAMBDA i : EscapedOnce(Ch(s, i)), 1, Len(s)), text)

\* C25: escape_markdown(t) is clean_extracted_text(t) with every < and >
\* replaced by &lt; and &gt; and every [ ] ( ) * _ ` # and backslash prefixed by
\* one backslash, no character being escaped more than once
C25_EachCharacterEscapedOnce ==
    Returned("escape_markdown")
        => ret = EachEscapedOnce(clean_extracted_text(citation.title.s))

(***************************************************************************)
(* Properties of the construction of get_citation_signature                *)
(***************************************************************************)
\* the first run of 4 consecutive digit characters of the text, "" when none
FirstRunOfFourDigits(text) ==
    Strict(LAMBDA s :
              LET starts == { i \in 1..Len(s) : DigitRun(s, i, 4) }
              IN  IF starts = {} THEN "" ELSE SubSeq(s, Min(starts), Min(starts) + 3),
           text)

\* C26: the signature is the lowercased title without its non-alphanumeric
\* characters, then the lowercased alphanumeric-only family names of at most the
\* first two authors, sorted and concatenated, then the first run of 4
\* consecutive digit characters of the date (empty when there is none)
C26_SignatureConstruction ==
    Returned("get_citation_signature")
        => ret = SimplifiedTitle(citation) \o LeadFamilies(citation)
                   \o FirstRunOfFourDigits(StrOrEmpty(citation.date))

(***************************************************************************)
(* Properties of the alphanumeric share tested by has_valid_content        *)
(***************************************************************************)
\* every validity condition but the alphanumeric share: a title of at least 10
\* characters without denylisted substring and without IPv4-shaped substring,
\* whose final word is no stop word, and an author or editor
ConditionsOtherThanShare(c) ==
    LET title_str == lower(StrOrEmpty(c.title))
    IN  /\ Truthy(c.title)
        /\ Len(StrOrEmpty(c.title)) >= 10
        /\ ~HasJunkPattern(title_str)
        /\ ~SearchIPv4(title_str)
        /\ lower(FinalWord(StrOrEmpty(c.title)))
              \notin {"the", "in", "of", "and", "or", "but", "was", "were"}
        /\ (c.author # <<>> \/ c.editor # <<>>)

\* C27: for a citation that satisfies every other validity condition,
\* has_valid_content returns true exactly when the alphanumeric characters of the
\* title are at least 60% of its length, 5 * alnum >= 3 * length; a title at
\* exactly 60% is accepted
C27_SixtyPercentAlphanumeric ==
    (Returned("has_valid_content") /\ ConditionsOtherThanShare(citation))
        => ((ret = TRUE) <=> 5 * CountAlnum(StrOrEmpty(citation.title))
                               >= 3 * Len(StrOrEmpty(citation.title)))

(***************************************************************************)
(* Properties of the normalization done by the construction of a Citation  *)
(***************************************************************************)
\* the raw value of a field as it is handed to Citation()
RawField(record, f) ==
    IF f = "container_title" /\ record.container_hyphen_title.k # "none"
    THEN record.container_hyphen_title
    ELSE record[f]

\* a non-empty list becomes its first element trimmed, a string is trimmed, and
\* an empty list or empty string becomes absent
NormalizedField(raw) ==
    IF raw.k = "list" /\ raw.l # <<>> THEN Str(strip(raw.l[1]))
    ELSE IF raw.k = "str" /\ raw.s # "" THEN Str(strip(raw.s))
    ELSE None

\* C28: for each of type, title, container_title, volume, issue, pages, date,
\* publisher and location, the Citation constructed from a record holds the
\* first element, trimmed, of a raw non-empty list, the trimmed text of a raw
\* string, and no value for a raw empty list or empty string
C28_FieldsNormalized ==
    (pc = "parsed" /\ ~Uncoercible(citation_data))
        => \A f \in ScalarFields :
              citation[f] = NormalizedField(RawField(citation_data, f))

(***************************************************************************)
(* Properties relating the four groupings                                  *)
(***************************************************************************)
\* the entries of all list-item lines of a document, in order
EntryLinesOf(text) == Strict(LAMBDA lines : ItemsBetween(lines, 1, Len(lines)), Lines(text))

\* the same multiset of entries
SameMultiset(left, right) ==
    /\ Len(left) = Len(right)
    /\ \A i \in 1..Len(left) : Count(left, left[i]) = Count(right, left[i])

\* the headings of the collections, each with its count, in order
CollectionHeadings(text) ==
    Strict(LAMBDA sections : [ k \in 1..Len(sections) |-> sections[k].heading ],
           Sections(Lines(text), "## "))

\* the grouping built in the same way as this one
Counterpart(grouping) ==
    IF grouping = "divided" THEN "combined"
    ELSE IF grouping = "combined" THEN "divided"
    ELSE IF grouping = "sources" THEN "sources_divided"
    ELSE "sources"

\* C29: for the same collections and formatter the divided and the combined
\* grouping hold the same multiset of entry lines, and the sources and the
\* sources_divided grouping hold the same multiset of entry lines and the same
\* heading, with the same count, for each collection
C29_GroupingsHoldSameEntries ==
    /\ (write_pc = "returned" /\ output_type \in {"divided", "combined"}) =>
          \E counterpart \in { DocumentOf(Counterpart(output_type), formatter, json_files) } :
              SameMultiset(EntryLinesOf(output_file.text), EntryLinesOf(counterpart))
    /\ (WriteEnded /\ output_openable /\ output_type \in {"sources", "sources_divided"}) =>
          \E counterpart \in { DocumentOf(Counterpart(output_type), formatter, json_files) } :
              /\ SameMultiset(EntryLinesOf(output_file.text), EntryLinesOf(counterpart))
              /\ CollectionHeadings(output_file.text) = CollectionHeadings(counterpart)

\* sources_divided for a collection of two journal articles and a book and a
\* collection of two books and an invalid record: 3 and 2 sources, five entries
C29_Witness ==
    /\ write_pc = "returned"
    /\ output_type = "sources_divided"
    /\ Len(json_files) = 2
    /\ json_files[1].name = "info/anystyle-first_paper.json"
    /\ json_files[2].name = "refs.json"
    /\ CollectionHeadings(output_file.text) = << "First Paper (3 sources)", "Refs (2 sources)" >>
    /\ Len(EntryLinesOf(output_file.text)) = 5

(***************************************************************************)
(* Properties of extract_citations_from_pdfs                               *)
(***************************************************************************)
\* the positions in pdf_files of the PDFs whose pass of the loop has ended
Processed == 1..(pdf_idx - 1)

\* the path of the JSON output of a PDF lies in the working directory
OutputPathValid(pdf_file) == validate_file_path(json_output(pdf_file, output_dir)).raised = ""

\* both paths of a PDF are valid and the extraction tool ran to its end for it, with
\* exit status 0 and output that is not blank
ToolSucceeds(pdf_file) ==
    /\ validate_file_path(pdf_file).raised = ""
    /\ OutputPathValid(pdf_file)
    /\ PdfAt(pdf_file).anystyle.kind = "completed"
    /\ PdfAt(pdf_file).anystyle.returncode = 0
    /\ PdfAt(pdf_file).anystyle.stdout.kind # "blank"

\* the extraction executable is missing when the tool is run for a PDF
ExecutableMissing(pdf_file) ==
    /\ validate_file_path(pdf_file).raised = ""
    /\ OutputPathValid(pdf_file)
    /\ PdfAt(pdf_file).anystyle.kind = "FileNotFoundError"

\* the processing of a PDF fails: a path validation error, a non-zero exit or
\* empty output of the tool, a timeout, or any other exception
ProcessingFails(pdf_file) ==
    \/ validate_file_path(pdf_file).raised # ""
    \/ ~OutputPathValid(pdf_file)
    \/ /\ PdfAt(pdf_file).anystyle.kind = "completed"
       /\ \/ PdfAt(pdf_file).anystyle.returncode # 0
          \/ PdfAt(pdf_file).anystyle.stdout.kind = "blank"
    \/ PdfAt(pdf_file).anystyle.kind \in {"TimeoutExpired", "Exception"}
    \/ /\ ToolSucceeds(pdf_file)
       /\ validate_file_path(json_output(pdf_file, output_dir)).value \in ReadOnly

\* a PDF yields at least one valid citation
Yields(pdf_file) ==
    /\ ToolSucceeds(pdf_file)
    /\ ~ProcessingFails(pdf_file)
    /\ PdfAt(pdf_file).anystyle.stdout.kind = "list"
    /\ \E i \in 1..Len(PdfAt(pdf_file).anystyle.stdout.items) :
          has_valid_content(parse_citation(PdfAt(pdf_file).anystyle.stdout.items[i]))

\* the failed list holds, in order, an entry for each processed PDF of `failing`,
\* with the diagnostics of the file of that PDF
FailuresRecorded(failing) ==
    /\ Len(failed_files) = Cardinality(failing)
    /\ \A k \in 1..Cardinality(failing) :
          /\ failed_files[k][1] = display_name(pdf_files[Nth(failing, k)])
          /\ failed_files[k][3] = diagnose_pdf_failure(PdfAt(pdf_files[Nth(failing, k)]).file)

\* the list returned holds, in order, the JSON output of each PDF of `yielding`
OutputsReturned(yielding) ==
    /\ Len(extract_result) = Cardinality(yielding)
    /\ \A k \in 1..Cardinality(yielding) :
          extract_result[k]
              = validate_file_path(json_output(pdf_files[Nth(yielding, k)], output_dir)).value

\* C30: in extract_citations_from_pdfs a PDF whose processing fails is recorded in
\* the failed list with the diagnostics of that same PDF and the loop goes on to the
\* next PDF; only a missing extraction executable stops the loop; no exception
\* leaves the function, and the list returned holds, in input order, exactly the
\* JSON outputs of the PDFs that yielded at least one valid citation
C30_FailuresRecordedAndOutputsReturned ==
    /\ extract_pc # "raised"
    /\ extract_pc \in {"loop", "report", "returned"} =>
          \E failing \in { { i \in Processed : ProcessingFails(pdf_files[i]) } } :
              FailuresRecorded(failing)
    /\ (extract_pc \in {"report", "returned"} /\ printed # <<>>) =>
          \/ pdf_idx = Len(pdf_files) + 1
          \/ ExecutableMissing(pdf_files[pdf_idx])
    /\ extract_pc = "returned" =>
          \E yielding \in { { i \in Processed : Yields(pdf_files[i]) } } :
              OutputsReturned(yielding)
=============================================================================
